---- MODULE Spec2Model ----
(***************************************************************************)
(* DeepSearch: the cancellable, rate-limited bulk search commands of       *)
(* main.py (scan, search, regex, export, badscan) and the helpers of       *)
(* utils/command_utils.py and utils/search_utils.py.                       *)
(*                                                                         *)
(* Every command invocation is a task of the single asyncio event loop.    *)
(* A task runs without interruption from one await to the next, so each    *)
(* action below is the code of one handler between two awaits.  An await   *)
(* either returns or raises; other tasks run while a task is suspended.    *)
(***************************************************************************)
EXTENDS Integers, Sequences, FiniteSets, TLC

(* ---------------------------------------------------------------- bounds *)
\* number of command invocations that may be in flight at once
MaxTasks == 2
\* number of command invocations issued in one behaviour
MaxCommands == 3
\* resolution of the clock: ticks per second
TicksPerSecond == 2
\* length of the acquire/release sequences tried on the job registry
MaxOps == 5
\* number of outcomes recorded one after the other on the stats store
MaxJobs == 3
\* largest message count of one recorded outcome
MaxMsgs == 2

(* ------------------------------------------------------ program constants *)
\* apply_cooldown(..., cooldown_minutes=5)
cooldown_minutes == 5
\* "if time_diff < 600:  # 10 minutes cooldown" in regex_search, export_results
CooldownSeconds == 600
\* limit = query_limit if deep_search or custom_query else 100
DefaultLimit == 100
\* flags.get("query_limit", 500)
DefaultQueryLimit == 500

Tasks == 1..MaxTasks
Kinds == {"scan", "search", "regex", "export", "badscan"}

\* markers for values the program represents by None / a missing key
NoQ == -1
NoTime == -1
NoCount == -1

(* ----------------------------------------------------------- environment *)
\* The guild the commands are issued in: its text channels in guild order,
\* each with its history, newest first.  A message is its author and whether
\* its content matches the predicate of the command.  readable: the bot has
\* read_messages on the channel; read_history: reading its history does not
\* raise discord.Forbidden.
Msg(a, h) == [author |-> a, hit |-> h]

GuildChannels ==
    << [name |-> "general", readable |-> TRUE, read_history |-> TRUE,
        history |-> << Msg("target", TRUE), Msg("other", TRUE) >>],
       [name |-> "locked", readable |-> TRUE, read_history |-> FALSE,
        history |-> << Msg("target", TRUE) >>],
       [name |-> "random", readable |-> TRUE, read_history |-> TRUE,
        history |-> << Msg("target", FALSE) >>],
       [name |-> "secret", readable |-> FALSE, read_history |-> FALSE,
        history |-> << Msg("target", TRUE) >>] >>

\* The instants at which the clock is read, in ticks: around the two cooldown
\* windows of the program.
TimePoints ==
    {0,
     cooldown_minutes * 60 * TicksPerSecond,
     CooldownSeconds * TicksPerSecond - 1,
     CooldownSeconds * TicksPerSecond}

Min(a, b) == IF a < b THEN a ELSE b
Max(a, b) == IF a > b THEN a ELSE b

RECURSIVE SeqSum(_)
SeqSum(s) == IF s = <<>> THEN 0 ELSE Head(s) + SeqSum(Tail(s))

RECURSIVE SeqMax(_)
SeqMax(s) == IF s = <<>> THEN 0 ELSE Max(Head(s), SeqMax(Tail(s)))

forbidden_never(c) == FALSE

\* channel.history(...) of channel c raises discord.Forbidden
forbidden(c) == ~GuildChannels[c].read_history

\* a history read that ignores the limit
History_unlimited(c, limit) == GuildChannels[c].history

\* channel.history(limit=limit): the newest `limit` messages of the channel
History(c, limit) ==
    SubSeq(GuildChannels[c].history, 1, Min(limit, Len(GuildChannels[c].history)))

\* number of messages of a sequence written by the target user that match
Hits(msgs) ==
    Cardinality({i \in 1..Len(msgs) : msgs[i].author = "target" /\ msgs[i].hit})

VARIABLES
    is_running,        \* kind -> "absent" (no attribute yet) | "False" | "True"
    search_cancelled,  \* the one shared cancellation flag
    search_cooldowns,  \* guild -> time of the last admitted expensive search
    search_stats,      \* the in-memory stats aggregate
    stats_file,        \* search_stats.json: <<>> when missing, else <<document>>
    now,               \* datetime.now(), in ticks
    job,               \* task -> the locals of the handler it runs
    answer,            \* what the handler left behind that returned in the step
                       \* just taken (NoAnswer when none did)
    gate,              \* the decision of the cooldown gate in the step just taken
                       \* (NoGate when it took none)
    issued,            \* number of commands issued so far
    expensive_starts,  \* times at which expensive jobs started scanning
    reg_log,           \* acquire/release calls made on the registry, with results
    recorded,          \* message counts of the outcomes recorded in the stats
    call,              \* the arguments a helper function is applied to
    returned,          \* what that application returned
    keyword_match_cache,  \* cache key -> cached result of keyword_match
    hash_seed,         \* the seed of str hashing of this process (NoSeed until drawn)
    message_cache,     \* <<channel id, limit>> -> the page stored by get_cached_messages
    text_channel,      \* the channel get_cached_messages is asked for: whether the
                       \* bot knows it, and the number of messages posted in it
    CONFIG             \* the configuration; of its keys, search_keywords

vars == << is_running, search_cancelled, search_cooldowns, search_stats,
           stats_file, now, job, answer, gate, issued, expensive_starts,
           reg_log, recorded, call, returned, keyword_match_cache, hash_seed,
           message_cache, text_channel, CONFIG >>


\* the process has hashed no string yet
NoSeed == -1

(* ------------------------------------------------------------ JobRegistry *)
\* a registry that hands the slot out without testing the flag
setup_command_execution_releasing(flag) ==
    IF flag = "True" THEN [ok |-> FALSE, flag |-> "False"] ELSE [ok |-> TRUE, flag |-> "True"]

setup_command_execution_untested(flag) == [ok |-> TRUE, flag |-> "True"]

\* setup_command_execution(command_function): the flag of one kind before the
\* call -> whether the slot was acquired, and the flag after the call
setup_command_execution(flag) ==
    LET f == IF flag = "absent" THEN "False" ELSE flag
    IN  IF f = "True"
        THEN [ok |-> FALSE, flag |-> f]
        ELSE [ok |-> TRUE, flag |-> "True"]

handle_cancel_request_unconditional(flag, is_cancel) == IF is_cancel THEN "True" ELSE "None"

\* handle_cancel_request(command_function, args), and the same test written
\* inline in scan, regex, export and badscan: True / False / None
handle_cancel_request(flag, is_cancel) ==
    IF is_cancel
    THEN (IF flag # "absent" /\ flag = "True" THEN "True" ELSE "False")
    ELSE "None"

(* ----------------------------------------------------------- CooldownGate *)
GuildId == "home"
Requester == "admin"
Keyword == "kw"

\* apply_cooldown(search_cooldowns, ctx, deep_search, custom_query) read at
\* time t.  elapsed and remaining are minutes in the code; here they are kept
\* in ticks (one minute is 60 * TicksPerSecond ticks), which is exact.
apply_cooldown(cooldowns, guild, deep_search, custom_query, t) ==
    IF deep_search \/ custom_query
    THEN IF guild \in DOMAIN cooldowns
            /\ t - cooldowns[guild] < cooldown_minutes * 60 * TicksPerSecond
         THEN [ok |-> FALSE,
               remaining |-> cooldown_minutes * 60 * TicksPerSecond
                               - (t - cooldowns[guild]),
               cooldowns |-> cooldowns]
         ELSE [ok |-> TRUE, remaining |-> 0,
               cooldowns |-> [g \in DOMAIN cooldowns \cup {guild} |->
                                 IF g = guild THEN t ELSE cooldowns[g]]]
    ELSE [ok |-> TRUE, remaining |-> 0, cooldowns |-> cooldowns]

\* The gate written inline in regex_search and export_results:
\* time_diff < 600 seconds, remaining = int(600 - time_diff) whole seconds.
inline_cooldown(cooldowns, guild, deep_search, custom_query, t) ==
    IF deep_search \/ custom_query
    THEN IF guild \in DOMAIN cooldowns
            /\ t - cooldowns[guild] < CooldownSeconds * TicksPerSecond
         THEN [ok |-> FALSE,
               remaining |-> (CooldownSeconds * TicksPerSecond
                                - (t - cooldowns[guild])) \div TicksPerSecond,
               cooldowns |-> cooldowns]
         ELSE [ok |-> TRUE, remaining |-> 0,
               cooldowns |-> [g \in DOMAIN cooldowns \cup {guild} |->
                                 IF g = guild THEN t ELSE cooldowns[g]]]
    ELSE [ok |-> TRUE, remaining |-> 0, cooldowns |-> cooldowns]

(* ------------------------------------------------------ ChannelSetResolver *)
\* a channel specifier as typed: the name and whether a '#' precedes it
Specifier(hash, name) == [hash |-> hash, name |-> name]

\* ch.strip('#')
strip_hash(s) == [s EXCEPT !.hash = FALSE]

\* discord.utils.get(ctx.guild.text_channels, name=ch_name): the first channel
\* whose name is the specifier as given, 0 when there is none
get_channel(s) ==
    LET found == {i \in 1..Len(GuildChannels) :
                     ~s.hash /\ GuildChannels[i].name = s.name}
    IN  IF found = {} THEN 0
        ELSE CHOOSE i \in found : \A k \in found : i <= k

RECURSIVE include_readable(_)
include_readable(include) ==
    IF include = <<>> THEN <<>>
    ELSE LET c == get_channel(Head(include))
         IN  (IF c # 0 /\ GuildChannels[c].readable THEN <<c>> ELSE <<>>)
             \o include_readable(Tail(include))

RECURSIVE channels_where(_, _)
channels_where(i, keep) ==
    IF i > Len(GuildChannels) THEN <<>>
    ELSE (IF i \in keep THEN <<i>> ELSE <<>>) \o channels_where(i + 1, keep)

\* process_search_channels(ctx, include_channels, exclude_channels)
process_search_channels(include, exclude) ==
    IF include # <<>>
    THEN include_readable(include)
    ELSE channels_where(1,
            {i \in 1..Len(GuildChannels) :
                /\ \A k \in 1..Len(exclude) :
                      exclude[k].hash \/ exclude[k].name # GuildChannels[i].name
                /\ GuildChannels[i].readable})

RECURSIVE include_any(_)
include_any(include) ==
    IF include = <<>> THEN <<>>
    ELSE LET c == get_channel(strip_hash(Head(include)))
         IN  (IF c # 0 THEN <<c>> ELSE <<>>) \o include_any(Tail(include))

\* "Prepare search channels" as written inline in scan, regex and export:
\* specifiers stripped of '#', no permission filter
inline_search_channels(include, exclude) ==
    IF include # <<>>
    THEN include_any(include)
    ELSE channels_where(1,
            {i \in 1..Len(GuildChannels) :
                \A k \in 1..Len(exclude) :
                    exclude[k].name # GuildChannels[i].name})

(* -------------------------------------------------------------- StatsStore *)
EmptyMap == [x \in {} |-> 0]

\* the default aggregate of load_search_stats; last_search is <<>> for None
\* and <<record>> otherwise
DefaultStats ==
    [total_searches |-> 0,
     total_messages_searched |-> 0,
     total_matches_found |-> 0,
     cancelled_searches |-> 0,
     deep_searches |-> 0,
     search_time_total |-> 0,
     searches_by_guild |-> EmptyMap,
     searches_by_user |-> EmptyMap,
     last_search |-> <<>>,
     largest_search |-> [messages |-> 0, time |-> 0, keyword |-> "", guild |-> ""]]

\* a content of search_stats.json that json.load rejects
Unparsable == [text |-> "{"]

\* json.load(f) returns, rather than raises
parses(content) == "text" \notin DOMAIN content

load_search_stats_unguarded(file) == IF file = <<>> THEN DefaultStats ELSE file[1]

\* load_search_stats(): the stored document; the default when there is no
\* file, or when reading it raises
load_search_stats(file) ==
    IF file = <<>> THEN DefaultStats
    ELSE IF parses(file[1]) THEN file[1]
    ELSE DefaultStats

\* save_search_stats(): the file after json.dump(search_stats)
save_search_stats(stats) == << stats >>

Incremented(map, key) ==
    [k \in DOMAIN map \cup {key} |->
        IF k = key THEN (IF key \in DOMAIN map THEN map[key] + 1 ELSE 1)
        ELSE map[k]]

\* the counters every recorded outcome adds to, common to both recorders
add_counters(stats, guild, author, total_searched, n_found, search_time) ==
    [stats EXCEPT
        !.total_searches = @ + 1,
        !.total_messages_searched = @ + total_searched,
        !.total_matches_found = @ + n_found,
        !.search_time_total = @ + search_time,
        !.searches_by_guild = Incremented(@, guild),
        !.searches_by_user = Incremented(@, author)]

\* a recorder that overwrites largest_search with every outcome
update_search_stats_overwriting(stats, guild, author, total_searched, n_found, search_time, t) ==
    LET s == add_counters(stats, guild, author, total_searched, n_found, search_time)
    IN  [s EXCEPT
            !.last_search = << [user |-> author, guild |-> guild, time |-> t,
                                messages_searched |-> total_searched,
                                matches_found |-> n_found,
                                search_time |-> search_time] >>,
            !.largest_search = [messages |-> total_searched, user |-> author,
                                guild |-> guild, time |-> t]]

\* update_search_stats(search_stats, ctx, total_searched, found_messages,
\* search_time), called at time t
update_search_stats(stats, guild, author, total_searched, n_found, search_time, t) ==
    LET s == add_counters(stats, guild, author, total_searched, n_found, search_time)
    IN  [s EXCEPT
            !.last_search = << [user |-> author, guild |-> guild, time |-> t,
                                messages_searched |-> total_searched,
                                matches_found |-> n_found,
                                search_time |-> search_time] >>,
            !.largest_search =
                IF total_searched > stats.largest_search.messages
                THEN [messages |-> total_searched, user |-> author,
                      guild |-> guild, time |-> t]
                ELSE @]

\* "Update global search stats" as written inline at the end of regex_search
\* and export_results
inline_update_stats(stats, guild, author, user, keyword, total_searched, n_found, search_time) ==
    LET s == add_counters(stats, guild, author, total_searched, n_found, search_time)
    IN  [s EXCEPT
            !.last_search = << [user |-> user, keyword |-> keyword,
                                messages |-> total_searched, time |-> search_time,
                                matches |-> n_found, guild |-> guild] >>,
            !.largest_search =
                IF total_searched > stats.largest_search.messages
                THEN [messages |-> total_searched, time |-> search_time,
                      keyword |-> keyword, guild |-> guild]
                ELSE @]


(* ------------------------------------------------------- command arguments *)
\* what was typed after the command name: the flags, the --in list, and the
\* defect of the input if it has one
QValues == {NoQ, 1}
IncludeChoices == { <<>>, << Specifier(FALSE, "nosuch") >> }
Defects == {"ok", "bad_q", "few_args", "bad_user", "bad_regex", "bad_lang"}

Args ==
    {a \in [deep : BOOLEAN, q : QValues, include : IncludeChoices,
            defect : Defects] : ~(a.deep /\ a.q # NoQ)}

\* scan: --users and --messages; badscan: users stands for a --user option
TargetArgs ==
    {a \in [deep : BOOLEAN, q : QValues, include : IncludeChoices,
            defect : Defects, users : BOOLEAN, messages : BOOLEAN] :
        ~(a.deep /\ a.q # NoQ)}

\* the command with its required arguments and no option
PlainArgs == {a \in Args : ~a.deep /\ a.q = NoQ /\ a.include = <<>> /\ a.defect = "ok"}
PlainTargetArgs ==
    {a \in TargetArgs : /\ ~a.deep /\ a.q = NoQ /\ a.include = <<>>
                        /\ a.defect = "ok" /\ a.messages /\ ~a.users}
\* badscan: --user is the only option of the two it reads
UserArgs == {a \in TargetArgs : ~a.messages}
PlainUserArgs ==
    {a \in UserArgs : /\ ~a.deep /\ a.q = NoQ /\ a.include = <<>>
                      /\ a.defect = "ok" /\ ~a.users}
WellFormed(typed) == {a \in typed : a.defect = "ok"}

\* custom_query = "query_limit" in flags
custom_query(j) == j.q # NoQ

\* query_limit = flags.get("query_limit", 500)
query_limit(j) == IF j.q # NoQ THEN j.q ELSE DefaultQueryLimit

\* limit = query_limit if deep_search or custom_query else 100
history_limit(j) ==
    IF j.deep \/ custom_query(j) THEN query_limit(j) ELSE DefaultLimit

(* ------------------------------------------------------------------- tasks *)
\* The locals of a handler.  slot: this invocation has set its kind's
\* is_running.  at_seen: messages scanned when it first saw the cancellation
\* flag set (NoCount before).  asked: a cancel of its kind was accepted while
\* it held the slot.  missed: it has polled the flag and found it clear after
\* that.
IdleJob ==
    [pc |-> "idle", kind |-> "none", deep |-> FALSE, q |-> NoQ,
     include |-> <<>>, defect |-> "ok", users |-> FALSE, messages |-> FALSE,
     slot |-> FALSE,
     chan |-> 0, pos |-> 0, total |-> 0, found |-> 0, start |-> 0,
     at_seen |-> NoCount, asked |-> FALSE, missed |-> FALSE]

\* What a handler left behind when it returned.  reply: the last message it
\* sent or edited; channels, messages, matches: the counts that message
\* states (NoCount: the message states none); remaining: the wait a cooldown
\* rejection states; scanned, at_seen, asked: the job's locals when it
\* returned.
NoAnswer ==
    [kind |-> "none", outcome |-> "none", reply |-> "none",
     channels |-> NoCount, messages |-> NoCount, matches |-> NoCount,
     remaining |-> NoCount,
     scanned |-> 0, at_seen |-> NoCount, asked |-> FALSE, missed |-> FALSE]

\* A decision of the cooldown gate on an expensive command: the guild's
\* timestamp it found (NoTime: none), the time it read, its verdict and the
\* wait it computed.
NoGate ==
    [kind |-> "none", last |-> NoTime, at |-> NoTime, ok |-> TRUE, remaining |-> 0]

Decision(k, cooldowns, j, g) ==
    IF j.deep \/ j.q # NoQ
    THEN [kind |-> k,
          last |-> IF GuildId \in DOMAIN cooldowns THEN cooldowns[GuildId] ELSE NoTime,
          at |-> now, ok |-> g.ok, remaining |-> g.remaining]
    ELSE NoGate

NewJob(k, a) ==
    [IdleJob EXCEPT !.kind = k, !.deep = a.deep, !.q = a.q,
                    !.include = a.include, !.defect = a.defect]

\* the answer of a handler that returns before any job started
Rejected(k, reply) == [NoAnswer EXCEPT !.kind = k, !.outcome = "rejected", !.reply = reply]

\* the answer of a handler whose job ran: the locals it ends with
Ended(j, outcome, reply) ==
    [NoAnswer EXCEPT !.kind = j.kind, !.outcome = outcome, !.reply = reply,
                     !.scanned = j.total, !.at_seen = j.at_seen,
                     !.asked = j.asked, !.missed = j.missed]

InFlight(t) == job[t].pc # "idle"

Flag(k, v) == [is_running EXCEPT ![k] = v]

\* the handler of task t returns: its locals are gone, its answer stays
Return(t, r) ==
    /\ job' = [job EXCEPT ![t] = IdleJob]
    /\ answer' = r

\* the handler of task t goes on to its next await with locals j
Goto(t, j) ==
    /\ job' = [job EXCEPT ![t] = j]
    /\ answer' = NoAnswer

Issue(t) ==
    /\ ~InFlight(t)
    /\ issued < MaxCommands
    /\ issued' = issued + 1

\* an expensive job issues its first history fetch: the times of the last
\* two such starts are kept
NoteStart(old, new) ==
    expensive_starts' =
        IF /\ old.chan = 0
           /\ new.pc \in {"msgs", "fetch"}
           /\ (old.deep \/ custom_query(old))
        THEN IF expensive_starts = <<>>
             THEN << now >>
             ELSE << expensive_starts[Len(expensive_starts)], now >>
        ELSE expensive_starts

TypeOK ==
    /\ is_running \in [Kinds -> {"absent", "False", "True"}]
    /\ search_cancelled \in BOOLEAN
    /\ now \in TimePoints
    /\ issued \in 0..MaxCommands

\* CONFIG["search_keywords"] as the configuration file gives it at startup
StartupKeywords == {<<"a", "b">>}

Init ==
    /\ is_running = [k \in Kinds |-> "absent"]
    /\ search_cancelled = FALSE
    /\ search_cooldowns = EmptyMap
    /\ stats_file = <<>>
    /\ search_stats = load_search_stats(stats_file)
    /\ now = 0
    /\ job = [t \in Tasks |-> IdleJob]
    /\ answer = NoAnswer
    /\ gate = NoGate
    /\ issued = 0
    /\ expensive_starts = <<>>
    /\ reg_log = <<>>
    /\ recorded = <<>>
    /\ call = <<>>
    /\ returned = <<>>
    /\ keyword_match_cache = EmptyMap
    /\ hash_seed = NoSeed
    /\ message_cache = EmptyMap
    /\ text_channel = [known |-> TRUE, posts |-> 0]
    /\ CONFIG = [search_keywords |-> StartupKeywords]

(* ------------------------------------------------------------------ clock *)
\* The clock is read between commands: a job is short beside the minutes of
\* the cooldown windows that TimePoints spans.
Tick ==
    /\ \A t \in Tasks : ~InFlight(t)
    /\ \E p \in TimePoints : p > now /\ now' = p
    /\ answer' = NoAnswer
    /\ gate' = NoGate
    /\ UNCHANGED << is_running, search_cancelled, search_cooldowns, search_stats,
                    stats_file, job, issued, expensive_starts,
                    reg_log, recorded, call, returned,
                    keyword_match_cache, hash_seed, message_cache, text_channel, CONFIG >>

(* ----------------------------------------------------- "<command> cancel" *)
\* The cancel branch at the head of every handler (through
\* handle_cancel_request in search, written out in the others).
cancel_command(t, k) ==
    /\ Issue(t)
    /\ IF handle_cancel_request(is_running[k], TRUE) = "True"
       THEN /\ search_cancelled' = TRUE
            /\ job' = [u \in Tasks |->
                         IF job[u].kind = k /\ job[u].slot
                         THEN [job[u] EXCEPT !.asked = TRUE] ELSE job[u]]
            /\ answer' = [Rejected(k, "cancel_accepted") EXCEPT !.outcome = "cancel"]
       ELSE /\ search_cancelled' = search_cancelled
            /\ job' = job
            /\ answer' = [Rejected(k, "not_running") EXCEPT !.outcome = "cancel"]
    /\ UNCHANGED << is_running, search_cooldowns, search_stats, stats_file,
                    now, expensive_starts, reg_log, recorded, call, returned,
                    keyword_match_cache, hash_seed, message_cache, text_channel, CONFIG >>
    /\ gate' = NoGate

(* ----------------------------------------------------------------- search *)
\* A channel loop that starts the message count again at every channel.
next_channel_recounting(j, channels, fetch_pc) ==
    IF j.chan = Len(channels)
    THEN [j EXCEPT !.pc = "report"]
    ELSE IF search_cancelled
         THEN [j EXCEPT !.chan = @ + 1, !.pc = "cancel_edit",
                        !.at_seen = IF @ = NoCount THEN j.total ELSE @]
         ELSE [j EXCEPT !.chan = @ + 1, !.pc = fetch_pc, !.pos = 0, !.total = 0,
                        !.missed = @ \/ j.asked]

\* The top of "for channel in search_channels" as search, regex, export and
\* scan write it, reached from the await before it without suspending:
\* count the channel, poll the flag, start the channel's history (at
\* fetch_pc); past the last channel, go on to the summary.
next_channel(j, channels, fetch_pc) ==
    IF j.chan = Len(channels)
    THEN [j EXCEPT !.pc = "report"]
    ELSE IF search_cancelled
         THEN [j EXCEPT !.chan = @ + 1, !.pc = "cancel_edit",
                        !.at_seen = IF @ = NoCount THEN j.total ELSE @]
         ELSE [j EXCEPT !.chan = @ + 1, !.pc = fetch_pc, !.pos = 0,
                        !.missed = @ \/ j.asked]

search_next_channel(j, channels) == next_channel(j, channels, "msgs")

\* finally: <handler>.is_running = False; search_cancelled = False
Cleanup(k) ==
    /\ is_running' = Flag(k, "False")
    /\ search_cancelled' = FALSE

\* main.py 673-719: from the slot to "user = await get_cached_user(user_id)"
search_invoke(t, a) ==
    /\ Issue(t)
    /\ a.defect \in {"ok", "bad_q", "few_args", "bad_user"}
    /\ LET r == setup_command_execution(is_running["search"])
       IN  IF ~r.ok
           THEN /\ is_running' = Flag("search", r.flag)
                /\ search_cancelled' = search_cancelled
                /\ Return(t, Rejected("search", "already_running"))
           ELSE /\ search_cancelled' = FALSE
                /\ IF a.defect = "ok"
                   THEN /\ is_running' = Flag("search", r.flag)
                        /\ Goto(t, [NewJob("search", a) EXCEPT !.pc = "user", !.slot = TRUE])
                   ELSE /\ is_running' = Flag("search", "False")
                        /\ Return(t, Rejected("search", a.defect))
    /\ UNCHANGED << search_cooldowns, search_stats, stats_file, now, expensive_starts,
                    reg_log, recorded, call, returned,
                    keyword_match_cache, hash_seed, message_cache, text_channel, CONFIG >>
    /\ gate' = NoGate

\* main.py 710-746: get_cached_user has returned; the cooldown gate; the
\* channel set; up to "await ctx.send(...)" of the status message or of
\* process_search_channels
search_user(t, found) ==
    LET j == job[t]
        g == apply_cooldown(search_cooldowns, GuildId, j.deep, custom_query(j), now)
        channels == process_search_channels(j.include, <<>>)
    IN  /\ j.pc = "user" /\ j.kind = "search"
        /\ IF ~found
           THEN /\ is_running' = Flag("search", "False")
                /\ UNCHANGED << search_cooldowns,
                                keyword_match_cache, hash_seed, message_cache, text_channel, CONFIG >>
                /\ gate' = NoGate
                /\ Return(t, Rejected("search", "user_not_found"))
           ELSE /\ gate' = Decision("search", search_cooldowns, j, g)
                /\ search_cooldowns' = g.cooldowns
                /\ IF ~g.ok
                   THEN /\ is_running' = Flag("search", "False")
                        /\ Return(t, [Rejected("search", "cooldown") EXCEPT
                                         !.remaining = g.remaining])
                   ELSE IF channels = <<>> /\ j.include = <<>>
                   THEN /\ is_running' = Flag("search", "False")
                        /\ Return(t, Rejected("search", "none"))
                   ELSE /\ is_running' = is_running
                        /\ Goto(t, [j EXCEPT !.pc = IF channels = <<>>
                                                   THEN "no_channels" ELSE "status"])
        /\ UNCHANGED << search_cancelled, search_stats, stats_file, now, issued,
                        expensive_starts, reg_log, recorded, call, returned,
                        keyword_match_cache, hash_seed, message_cache, text_channel, CONFIG >>

\* search_utils.py 16-18 and main.py 729-731: the "None of the specified
\* channels" message was sent, or sending it raised
search_no_channels(t, ok) ==
    LET j == job[t]
    IN  /\ j.pc = "no_channels" /\ j.kind = "search"
        /\ IF ok
           THEN /\ is_running' = Flag("search", "False")
                /\ Return(t, Rejected("search", "no_channels"))
           ELSE /\ is_running' = is_running
                /\ Return(t, Ended(j, "error", "none"))
        /\ UNCHANGED << search_cancelled, search_cooldowns, search_stats,
                        stats_file, now, issued, expensive_starts,
                        reg_log, recorded, call, returned,
                        keyword_match_cache, hash_seed, message_cache, text_channel, CONFIG >>
        /\ gate' = NoGate

\* main.py 744-769: the status message was sent (or sending it raised, outside
\* the try); the locals of the scan; the first turn of the channel loop
search_status(t, ok) ==
    LET j == job[t]
        channels == process_search_channels(j.include, <<>>)
        n == search_next_channel([j EXCEPT !.start = now], channels)
    IN  /\ j.pc = "status" /\ j.kind = "search"
        /\ IF ok
           THEN /\ Goto(t, n)
                /\ NoteStart(j, n)
           ELSE /\ Return(t, Ended(j, "error", "none"))
                /\ expensive_starts' = expensive_starts
        /\ UNCHANGED << is_running, search_cancelled, search_cooldowns,
                        search_stats, stats_file, now, issued,
                        reg_log, recorded, call, returned,
                        keyword_match_cache, hash_seed, message_cache, text_channel, CONFIG >>
        /\ gate' = NoGate

\* main.py 769-797: one turn of "async for msg in channel.history(limit)":
\* the next message arrived, the history ended, or the fetch raised
\* discord.Forbidden
search_msgs(t) ==
    LET j == job[t]
        channels == process_search_channels(j.include, <<>>)
        ok == ~forbidden(channels[j.chan])
        msgs == History(channels[j.chan], history_limit(j))
        counted == [j EXCEPT !.pos = @ + 1, !.total = @ + 1]
        m == msgs[j.pos + 1]
        n == IF ~ok \/ j.pos >= Len(msgs)
             THEN search_next_channel(j, channels)
             ELSE IF search_cancelled
                  THEN search_next_channel(
                          [counted EXCEPT !.at_seen = IF @ = NoCount
                                                      THEN counted.total ELSE @],
                          channels)
                  ELSE [counted EXCEPT
                           !.missed = @ \/ j.asked,
                           !.found = IF m.author = "target" /\ m.hit
                                     THEN @ + 1 ELSE @]
    IN  /\ j.pc = "msgs" /\ j.kind = "search"
        /\ Goto(t, n)
        /\ UNCHANGED << is_running, search_cancelled, search_cooldowns,
                        search_stats, stats_file, now, issued,
                        expensive_starts, reg_log, recorded, call, returned,
                        keyword_match_cache, hash_seed, message_cache, text_channel, CONFIG >>
        /\ gate' = NoGate

\* main.py 760-762, 827-829: the "Search cancelled after checking i/n
\* channels" edit is over; return through finally
search_cancel_edit(t, ok) ==
    LET j == job[t]
    IN  /\ j.pc = "cancel_edit" /\ j.kind = "search"
        /\ Cleanup("search")
        /\ Return(t, IF ok
                     THEN [Ended(j, "cancelled", "cancelled") EXCEPT !.channels = j.chan]
                     ELSE Ended(j, "error", "none"))
        /\ UNCHANGED << search_cooldowns, search_stats, stats_file, now, issued, expensive_starts,
                        reg_log, recorded, call, returned,
                        keyword_match_cache, hash_seed, message_cache, text_channel, CONFIG >>
        /\ gate' = NoGate

\* main.py 799-829: the summary edit is over; the stats are updated and saved;
\* finally
search_report(t, ok) ==
    LET j == job[t]
        stats == update_search_stats(search_stats, GuildId, Requester,
                                     j.total, j.found, now - j.start, now)
    IN  /\ j.pc = "report" /\ j.kind = "search"
        /\ Cleanup("search")
        /\ IF ok
           THEN /\ search_stats' = stats
                /\ stats_file' = save_search_stats(stats)
                /\ Return(t, [Ended(j, "completed", "complete") EXCEPT
                                 !.messages = j.total, !.matches = j.found])
           ELSE /\ UNCHANGED << search_stats, stats_file,
                                keyword_match_cache, hash_seed, message_cache, text_channel, CONFIG >>
                /\ Return(t, Ended(j, "error", "none"))
        /\ UNCHANGED << search_cooldowns, now, issued, expensive_starts,
                        reg_log, recorded, call, returned,
                        keyword_match_cache, hash_seed, message_cache, text_channel, CONFIG >>
        /\ gate' = NoGate

SearchSteps(t, typed) ==
    \/ \E a \in typed : search_invoke(t, a)
    \/ \E b \in BOOLEAN : search_user(t, b)
    \/ \E b \in BOOLEAN : search_no_channels(t, b)
    \/ \E b \in BOOLEAN : search_status(t, b)
    \/ search_msgs(t)
    \/ \E b \in BOOLEAN : search_cancel_edit(t, b)
    \/ \E b \in BOOLEAN : search_report(t, b)

(* ------------------------------------------------------------------ regex *)
\* hasattr(f, "is_running") or f.is_running = False, as regex, export and
\* scan write it before their "already running" test
with_attribute(k) ==
    IF is_running[k] = "absent" THEN Flag(k, "False") ELSE is_running

\* main.py 1156-1193: the "already running" test, the parsed arguments, up to
\* "user = await get_cached_user(user_id)"; is_running is not set yet
regex_invoke(t, a) ==
    /\ Issue(t)
    /\ a.defect \in {"ok", "bad_q", "few_args", "bad_user", "bad_regex"}
    /\ is_running' = with_attribute("regex")
    /\ IF is_running["regex"] = "True"
       THEN /\ search_cancelled' = search_cancelled
            /\ Return(t, Rejected("regex", "already_running"))
       ELSE /\ search_cancelled' = FALSE
            /\ IF a.defect \in {"ok", "bad_regex"}
               THEN Goto(t, [NewJob("regex", a) EXCEPT !.pc = "user"])
               ELSE Return(t, Rejected("regex", a.defect))
    /\ UNCHANGED << search_cooldowns, search_stats, stats_file, now, expensive_starts,
                    reg_log, recorded, call, returned,
                    keyword_match_cache, hash_seed, message_cache, text_channel, CONFIG >>
    /\ gate' = NoGate

\* a compile step that accepts every pattern
pattern_compiles_any(j) == TRUE

\* main.py 1204-1207: re.compile(regex_pattern, re.IGNORECASE) does not
\* raise re.error
pattern_compiles(j) == j.defect # "bad_regex"

\* main.py 1193-1247: get_cached_user has returned; the pattern is compiled;
\* the cooldown gate; is_running is set; up to "await ctx.send(...)" of the
\* status message
regex_user(t, found) ==
    LET j == job[t]
        expensive == j.deep \/ custom_query(j)
        g == inline_cooldown(search_cooldowns, GuildId, j.deep, custom_query(j), now)
    IN  /\ j.pc = "user" /\ j.kind = "regex"
        /\ IF ~found \/ ~pattern_compiles(j)
           THEN /\ UNCHANGED << is_running, search_cooldowns, search_stats,
                                keyword_match_cache, hash_seed, message_cache, text_channel, CONFIG >>
                /\ gate' = NoGate
                /\ Return(t, Rejected("regex", IF ~found THEN "user_not_found"
                                               ELSE "bad_regex"))
           ELSE /\ search_stats' =
                      IF expensive
                      THEN [search_stats EXCEPT !.deep_searches = @ + 1]
                      ELSE search_stats
                /\ gate' = Decision("regex", search_cooldowns, j, g)
                /\ search_cooldowns' = g.cooldowns
                /\ IF ~g.ok
                   THEN /\ is_running' = is_running
                        /\ Return(t, [Rejected("regex", "cooldown") EXCEPT
                                         !.remaining = g.remaining])
                   ELSE /\ is_running' = Flag("regex", "True")
                        /\ Goto(t, [j EXCEPT !.pc = "status", !.slot = TRUE])
        /\ UNCHANGED << search_cancelled, stats_file, now, issued,
                        expensive_starts, reg_log, recorded, call, returned,
                        keyword_match_cache, hash_seed, message_cache, text_channel, CONFIG >>

\* main.py 1245-1283: the status message was sent (or sending it raised,
\* inside the try); the channel set; the first turn of the channel loop
regex_status(t, ok) ==
    LET j == job[t]
        channels == inline_search_channels(j.include, <<>>)
        n == next_channel([j EXCEPT !.start = now], channels, "fetch")
    IN  /\ j.pc = "status" /\ j.kind = "regex"
        /\ IF ok
           THEN /\ Goto(t, n)
                /\ NoteStart(j, n)
                /\ UNCHANGED << is_running, search_cancelled,
                                keyword_match_cache, hash_seed, message_cache, text_channel, CONFIG >>
           ELSE /\ Cleanup("regex")
                /\ Return(t, Ended(j, "error", "none"))
                /\ expensive_starts' = expensive_starts
        /\ UNCHANGED << search_cooldowns, search_stats, stats_file, now, issued,
                        reg_log, recorded, call, returned,
                        keyword_match_cache, hash_seed, message_cache, text_channel, CONFIG >>
        /\ gate' = NoGate

\* main.py 1283-1297: get_cached_messages(channel.id, limit=query_limit) has
\* returned the page, which is matched message by message, or raised
\* discord.Forbidden; then the next turn of the channel loop
regex_fetch(t) ==
    LET j == job[t]
        channels == inline_search_channels(j.include, <<>>)
        ok == ~forbidden(channels[j.chan])
        msgs == History(channels[j.chan], query_limit(j))
        scanned == IF ok
                   THEN [j EXCEPT !.total = @ + Len(msgs), !.found = @ + Hits(msgs)]
                   ELSE j
    IN  /\ j.pc = "fetch" /\ j.kind = "regex"
        /\ Goto(t, next_channel(scanned, channels, "fetch"))
        /\ UNCHANGED << is_running, search_cancelled, search_cooldowns,
                        search_stats, stats_file, now, issued,
                        expensive_starts, reg_log, recorded, call, returned,
                        keyword_match_cache, hash_seed, message_cache, text_channel, CONFIG >>
        /\ gate' = NoGate

\* main.py 1277-1280, 1360-1362: the "Search cancelled." edit is over;
\* cancelled_searches is counted; return through finally
regex_cancel_edit(t, ok) ==
    LET j == job[t]
    IN  /\ j.pc = "cancel_edit" /\ j.kind = "regex"
        /\ Cleanup("regex")
        /\ IF ok
           THEN /\ search_stats' = [search_stats EXCEPT !.cancelled_searches = @ + 1]
                /\ Return(t, Ended(j, "cancelled", "cancelled"))
           ELSE /\ search_stats' = search_stats
                /\ Return(t, Ended(j, "error", "none"))
        /\ UNCHANGED << search_cooldowns, stats_file, now, issued,
                        expensive_starts, reg_log, recorded, call, returned,
                        keyword_match_cache, hash_seed, message_cache, text_channel, CONFIG >>
        /\ gate' = NoGate

\* main.py 1299-1362: the results were sent and the status edited; the stats
\* are updated and saved; finally
regex_report(t, ok) ==
    LET j == job[t]
        stats == inline_update_stats(search_stats, GuildId, Requester, "target",
                                     Keyword, j.total, j.found, now - j.start)
    IN  /\ j.pc = "report" /\ j.kind = "regex"
        /\ Cleanup("regex")
        /\ IF ok
           THEN /\ search_stats' = stats
                /\ stats_file' = save_search_stats(stats)
                /\ Return(t, [Ended(j, "completed", "complete") EXCEPT
                                 !.messages = j.total, !.matches = j.found])
           ELSE /\ UNCHANGED << search_stats, stats_file,
                                keyword_match_cache, hash_seed, message_cache, text_channel, CONFIG >>
                /\ Return(t, Ended(j, "error", "none"))
        /\ UNCHANGED << search_cooldowns, now, issued, expensive_starts,
                        reg_log, recorded, call, returned,
                        keyword_match_cache, hash_seed, message_cache, text_channel, CONFIG >>
        /\ gate' = NoGate

RegexSteps(t, typed) ==
    \/ \E a \in typed : regex_invoke(t, a)
    \/ \E b \in BOOLEAN : regex_user(t, b)
    \/ \E b \in BOOLEAN : regex_status(t, b)
    \/ regex_fetch(t)
    \/ \E b \in BOOLEAN : regex_cancel_edit(t, b)
    \/ \E b \in BOOLEAN : regex_report(t, b)

(* ----------------------------------------------------------------- export *)
\* main.py 1381-1418: as regex_invoke
export_invoke(t, a) ==
    /\ Issue(t)
    /\ a.defect \in {"ok", "bad_q", "few_args", "bad_user"}
    /\ is_running' = with_attribute("export")
    /\ IF is_running["export"] = "True"
       THEN /\ search_cancelled' = search_cancelled
            /\ Return(t, Rejected("export", "already_running"))
       ELSE /\ search_cancelled' = FALSE
            /\ IF a.defect = "ok"
               THEN Goto(t, [NewJob("export", a) EXCEPT !.pc = "user"])
               ELSE Return(t, Rejected("export", a.defect))
    /\ gate' = NoGate
    /\ UNCHANGED << search_cooldowns, search_stats, stats_file, now,
                    expensive_starts, reg_log, recorded, call, returned,
                    keyword_match_cache, hash_seed, message_cache, text_channel, CONFIG >>

\* main.py 1418-1450: get_cached_user has returned; the cooldown gate; up to
\* "await ctx.send(...)" of the status message; is_running is not set yet
export_user(t, found) ==
    LET j == job[t]
        g == inline_cooldown(search_cooldowns, GuildId, j.deep, custom_query(j), now)
    IN  /\ j.pc = "user" /\ j.kind = "export"
        /\ IF ~found
           THEN /\ gate' = NoGate
                /\ UNCHANGED search_cooldowns
                /\ Return(t, Rejected("export", "user_not_found"))
           ELSE /\ gate' = Decision("export", search_cooldowns, j, g)
                /\ search_cooldowns' = g.cooldowns
                /\ IF ~g.ok
                   THEN Return(t, [Rejected("export", "cooldown") EXCEPT
                                      !.remaining = g.remaining])
                   ELSE Goto(t, [j EXCEPT !.pc = "status"])
        /\ UNCHANGED << is_running, search_cancelled, search_stats, stats_file,
                        now, issued, expensive_starts,
                        reg_log, recorded, call, returned,
                        keyword_match_cache, hash_seed, message_cache, text_channel, CONFIG >>

\* main.py 1448-1498: the status message was sent (or sending it raised,
\* before the try); is_running is set; the channel set; the first turn of
\* the channel loop
export_status(t, ok) ==
    LET j == job[t]
        channels == inline_search_channels(j.include, <<>>)
        n == next_channel([j EXCEPT !.start = now, !.slot = TRUE], channels, "fetch")
    IN  /\ j.pc = "status" /\ j.kind = "export"
        /\ IF ok
           THEN /\ is_running' = Flag("export", "True")
                /\ Goto(t, n)
                /\ NoteStart(j, n)
           ELSE /\ is_running' = is_running
                /\ Return(t, Ended(j, "error", "none"))
                /\ expensive_starts' = expensive_starts
        /\ gate' = NoGate
        /\ UNCHANGED << search_cancelled, search_cooldowns, search_stats,
                        stats_file, now, issued, reg_log, recorded, call, returned,
                        keyword_match_cache, hash_seed, message_cache, text_channel, CONFIG >>

\* main.py 1494-1513: the history of the channel was read to the limit and
\* matched, or reading it raised discord.Forbidden; then the next turn of
\* the channel loop
export_fetch(t) ==
    LET j == job[t]
        channels == inline_search_channels(j.include, <<>>)
        ok == ~forbidden(channels[j.chan])
        msgs == History(channels[j.chan], history_limit(j))
        scanned == IF ok
                   THEN [j EXCEPT !.total = @ + Len(msgs), !.found = @ + Hits(msgs)]
                   ELSE j
    IN  /\ j.pc = "fetch" /\ j.kind = "export"
        /\ Goto(t, next_channel(scanned, channels, "fetch"))
        /\ gate' = NoGate
        /\ UNCHANGED << is_running, search_cancelled, search_cooldowns,
                        search_stats, stats_file, now, issued,
                        expensive_starts, reg_log, recorded, call, returned,
                        keyword_match_cache, hash_seed, message_cache, text_channel, CONFIG >>

\* main.py 1482-1484, 1591-1595: the "Export cancelled after searching n
\* messages" edit is over; return through finally
export_cancel_edit(t, ok) ==
    LET j == job[t]
    IN  /\ j.pc = "cancel_edit" /\ j.kind = "export"
        /\ Cleanup("export")
        /\ Return(t, IF ok
                     THEN [Ended(j, "cancelled", "cancelled") EXCEPT !.messages = j.total]
                     ELSE Ended(j, "error", "error"))
        /\ gate' = NoGate
        /\ UNCHANGED << search_cooldowns, search_stats, stats_file, now, issued,
                        expensive_starts, reg_log, recorded, call, returned,
                        keyword_match_cache, hash_seed, message_cache, text_channel, CONFIG >>

\* main.py 1515-1595: the file is written, the status edited and the file
\* sent; the stats are updated and saved; finally
export_report(t, ok) ==
    LET j == job[t]
        stats == inline_update_stats(search_stats, GuildId, Requester, "target",
                                     Keyword, j.total, j.found, now - j.start)
    IN  /\ j.pc = "report" /\ j.kind = "export"
        /\ Cleanup("export")
        /\ IF ok
           THEN /\ search_stats' = stats
                /\ stats_file' = save_search_stats(stats)
                /\ Return(t, [Ended(j, "completed", "complete") EXCEPT
                                 !.messages = j.total, !.matches = j.found])
           ELSE /\ UNCHANGED << search_stats, stats_file,
                                keyword_match_cache, hash_seed, message_cache, text_channel, CONFIG >>
                /\ Return(t, Ended(j, "error", "error"))
        /\ gate' = NoGate
        /\ UNCHANGED << search_cooldowns, now, issued, expensive_starts,
                        reg_log, recorded, call, returned,
                        keyword_match_cache, hash_seed, message_cache, text_channel, CONFIG >>

ExportSteps(t, typed) ==
    \/ \E a \in typed : export_invoke(t, a)
    \/ \E b \in BOOLEAN : export_user(t, b)
    \/ \E b \in BOOLEAN : export_status(t, b)
    \/ export_fetch(t)
    \/ \E b \in BOOLEAN : export_cancel_edit(t, b)
    \/ \E b \in BOOLEAN : export_report(t, b)

(* ------------------------------------------------------------------- scan *)
\* all messages of a sequence that contain a configured keyword
KeywordHits(msgs) == Cardinality({i \in 1..Len(msgs) : msgs[i].hit})

\* main.py 492-535: the "already running" test, the parsed arguments (an
\* invalid --q only leaves query_limit unset), up to "await ctx.send(...)" of
\* the status message; is_running is not set yet
scan_invoke(t, a) ==
    LET q == IF a.defect = "bad_q" THEN NoQ ELSE a.q
        given == a.users \/ a.messages
        j == [NewJob("scan", a) EXCEPT
                 !.q = q, !.users = a.users,
                 !.messages = a.messages \/ (~given /\ (a.deep \/ q # NoQ))]
    IN  /\ Issue(t)
        /\ a.defect \in {"ok", "bad_q"}
        /\ is_running' = with_attribute("scan")
        /\ IF is_running["scan"] = "True"
           THEN /\ search_cancelled' = search_cancelled
                /\ Return(t, Rejected("scan", "already_running"))
           ELSE /\ search_cancelled' = FALSE
                /\ IF ~given /\ ~a.deep /\ q = NoQ
                   THEN Return(t, Rejected("scan", "usage"))
                   ELSE Goto(t, [j EXCEPT !.pc = "status"])
        /\ gate' = NoGate
        /\ UNCHANGED << search_cooldowns, search_stats, stats_file, now,
                        expensive_starts, reg_log, recorded, call, returned,
                        keyword_match_cache, hash_seed, message_cache, text_channel, CONFIG >>

\* the channel loop of scan, or the summary when no messages are scanned
scan_messages_part(j) ==
    IF j.messages
    THEN next_channel(j, inline_search_channels(j.include, <<>>), "fetch")
    ELSE [j EXCEPT !.pc = "report"]

\* main.py 535-549: the status message was sent (or sending it raised, before
\* the try); is_running is set; the guild is chunked for the member scan
scan_status(t, ok) ==
    LET j == [job[t] EXCEPT !.start = now, !.slot = TRUE]
        n == IF j.users THEN [j EXCEPT !.pc = "members"] ELSE scan_messages_part(j)
    IN  /\ job[t].pc = "status" /\ job[t].kind = "scan"
        /\ IF ok
           THEN /\ is_running' = Flag("scan", "True")
                /\ Goto(t, n)
                /\ NoteStart(job[t], n)
           ELSE /\ is_running' = is_running
                /\ Return(t, Ended(job[t], "error", "none"))
                /\ expensive_starts' = expensive_starts
        /\ gate' = NoGate
        /\ UNCHANGED << search_cancelled, search_cooldowns, search_stats,
                        stats_file, now, issued, reg_log, recorded, call, returned,
                        keyword_match_cache, hash_seed, message_cache, text_channel, CONFIG >>

\* main.py 549-619: the member loop, which polls the flag at its first
\* member; then the channel loop
scan_members_step(t, ok) ==
    LET j == job[t]
        n == IF search_cancelled
             THEN [j EXCEPT !.pc = "cancel_edit", !.at_seen = j.total]
             ELSE scan_messages_part([j EXCEPT !.missed = @ \/ j.asked])
    IN  /\ j.pc = "members" /\ j.kind = "scan"
        /\ IF ok
           THEN /\ Goto(t, n)
                /\ NoteStart(j, n)
                /\ UNCHANGED << is_running, search_cancelled,
                                keyword_match_cache, hash_seed, message_cache, text_channel, CONFIG >>
           ELSE /\ Cleanup("scan")
                /\ Return(t, Ended(j, "error", "error"))
                /\ expensive_starts' = expensive_starts
        /\ gate' = NoGate
        /\ UNCHANGED << search_cooldowns, search_stats, stats_file, now, issued,
                        reg_log, recorded, call, returned,
                        keyword_match_cache, hash_seed, message_cache, text_channel, CONFIG >>

\* main.py 616-629: the history of the channel was read to the limit and
\* matched against the keywords, or reading it raised discord.Forbidden
scan_fetch(t) ==
    LET j == job[t]
        channels == inline_search_channels(j.include, <<>>)
        ok == ~forbidden(channels[j.chan])
        msgs == History(channels[j.chan], history_limit(j))
        scanned == IF ok
                   THEN [j EXCEPT !.total = @ + Len(msgs),
                                  !.found = @ + KeywordHits(msgs)]
                   ELSE j
    IN  /\ j.pc = "fetch" /\ j.kind = "scan"
        /\ Goto(t, next_channel(scanned, channels, "fetch"))
        /\ gate' = NoGate
        /\ UNCHANGED << is_running, search_cancelled, search_cooldowns,
                        search_stats, stats_file, now, issued,
                        expensive_starts, reg_log, recorded, call, returned,
                        keyword_match_cache, hash_seed, message_cache, text_channel, CONFIG >>

\* main.py 566-568, 604-606, 644-648: the "Scan cancelled after ..." edit is
\* over; return through finally
scan_cancel_edit(t, ok) ==
    LET j == job[t]
    IN  /\ j.pc = "cancel_edit" /\ j.kind = "scan"
        /\ Cleanup("scan")
        /\ Return(t, IF ok
                     THEN [Ended(j, "cancelled", "cancelled") EXCEPT !.channels = j.chan]
                     ELSE Ended(j, "error", "error"))
        /\ gate' = NoGate
        /\ UNCHANGED << search_cooldowns, search_stats, stats_file, now, issued,
                        expensive_starts, reg_log, recorded, call, returned,
                        keyword_match_cache, hash_seed, message_cache, text_channel, CONFIG >>

\* main.py 631-648: the "Scan complete" edit is over; finally.  No stats.
scan_report(t, ok) ==
    LET j == job[t]
    IN  /\ j.pc = "report" /\ j.kind = "scan"
        /\ Cleanup("scan")
        /\ Return(t, IF ok
                     THEN [Ended(j, "completed", "complete") EXCEPT
                              !.messages = IF j.messages THEN j.total ELSE NoCount,
                              !.matches = j.found]
                     ELSE Ended(j, "error", "error"))
        /\ gate' = NoGate
        /\ UNCHANGED << search_cooldowns, search_stats, stats_file, now, issued,
                        expensive_starts, reg_log, recorded, call, returned,
                        keyword_match_cache, hash_seed, message_cache, text_channel, CONFIG >>

ScanSteps(t, typed) ==
    \/ \E a \in typed : scan_invoke(t, a)
    \/ \E b \in BOOLEAN : scan_status(t, b)
    \/ \E b \in BOOLEAN : scan_members_step(t, b)
    \/ scan_fetch(t)
    \/ \E b \in BOOLEAN : scan_cancel_edit(t, b)
    \/ \E b \in BOOLEAN : scan_report(t, b)

(* ---------------------------------------------------------------- badscan *)
\* the result cap of scan_bad_words: 1000 matches in the program
\* (main.py 2054), here as many as the histories above can reach
MatchCap == 1

RECURSIVE include_stripped_readable(_)
include_stripped_readable(include) ==
    IF include = <<>> THEN <<>>
    ELSE LET c == get_channel(strip_hash(Head(include)))
         IN  (IF c # 0 /\ GuildChannels[c].readable THEN <<c>> ELSE <<>>)
             \o include_stripped_readable(Tail(include))

\* main.py 1905-1938: "Prepare search channels" of badscan: names stripped of
\* leading '#', channels the bot can read
badscan_channels(include) ==
    IF include # <<>>
    THEN include_stripped_readable(include)
    ELSE channels_where(1, {i \in 1..Len(GuildChannels) : GuildChannels[i].readable})

\* main.py 1905-1952: the channel set, up to "await ctx.send(...)" of the
\* status message; the slot is released when the set is empty
badscan_prepare(t, j) ==
    IF badscan_channels(j.include) = <<>>
    THEN /\ is_running' = Flag("badscan", "False")
         /\ Return(t, Rejected("badscan", "no_channels"))
    ELSE /\ is_running' = Flag("badscan", "True")
         /\ Goto(t, [j EXCEPT !.pc = "status"])

\* main.py 1814-1890: the slot; the word list of the language; the --user
\* option, up to "await bot.fetch_user(...)" when its value is a number.
\* The returns for a missing word list and for a value that is no number
\* leave is_running set.
badscan_invoke(t, a) ==
    LET r == setup_command_execution(is_running["badscan"])
        j == [NewJob("badscan", a) EXCEPT
                 !.q = IF a.defect = "bad_q" THEN NoQ ELSE a.q,
                 !.users = a.users, !.slot = TRUE]
    IN  /\ Issue(t)
        /\ a.defect \in {"ok", "bad_q", "bad_user", "bad_lang"}
        /\ (a.defect = "bad_user" => a.users)
        /\ IF ~r.ok
           THEN /\ is_running' = Flag("badscan", r.flag)
                /\ search_cancelled' = search_cancelled
                /\ Return(t, Rejected("badscan", "already_running"))
           ELSE /\ search_cancelled' = FALSE
                /\ IF a.defect = "bad_lang"
                   THEN /\ is_running' = Flag("badscan", r.flag)
                        /\ Return(t, Rejected("badscan", "bad_lang"))
                   ELSE IF a.defect = "bad_user"
                   THEN /\ is_running' = Flag("badscan", r.flag)
                        /\ Return(t, Rejected("badscan", "user_not_found"))
                   ELSE IF a.users
                   THEN /\ is_running' = Flag("badscan", r.flag)
                        /\ Goto(t, [j EXCEPT !.pc = "user"])
                   ELSE badscan_prepare(t, j)
        /\ gate' = NoGate
        /\ UNCHANGED << search_cooldowns, search_stats, stats_file, now,
                        expensive_starts, reg_log, recorded, call, returned,
                        keyword_match_cache, hash_seed, message_cache, text_channel, CONFIG >>

\* main.py 1889-1952: fetch_user has returned the user or raised
\* discord.NotFound; that return leaves is_running set
badscan_user(t, found) ==
    LET j == job[t]
    IN  /\ j.pc = "user" /\ j.kind = "badscan"
        /\ IF found
           THEN badscan_prepare(t, j)
           ELSE /\ is_running' = is_running
                /\ Return(t, Rejected("badscan", "user_not_found"))
        /\ gate' = NoGate
        /\ UNCHANGED << search_cancelled, search_cooldowns, search_stats,
                        stats_file, now, issued, expensive_starts,
                        reg_log, recorded, call, returned,
                        keyword_match_cache, hash_seed, message_cache, text_channel, CONFIG >>

\* main.py 1991-2011: the top of "for channel in search_channels" of
\* badscan: the flag is polled before the channel is counted and ends the
\* loop; past the last channel, the summary
badscan_next_channel(j, channels) ==
    IF j.chan = Len(channels)
    THEN [j EXCEPT !.pc = "report"]
    ELSE IF search_cancelled
         THEN [j EXCEPT !.pc = "report",
                        !.at_seen = IF @ = NoCount THEN j.total ELSE @]
         ELSE [j EXCEPT !.chan = @ + 1, !.pc = "msgs", !.pos = 0,
                        !.missed = @ \/ j.asked]

\* main.py 1952-2013: the status message was sent (or sending it raised,
\* outside the try); the locals of the scan; the first turn of the channel
\* loop
badscan_status(t, ok) ==
    LET j == job[t]
        n == badscan_next_channel([j EXCEPT !.start = now],
                                  badscan_channels(j.include))
    IN  /\ j.pc = "status" /\ j.kind = "badscan"
        /\ IF ok
           THEN /\ Goto(t, n)
                /\ NoteStart(j, n)
           ELSE /\ Return(t, Ended(j, "error", "none"))
                /\ expensive_starts' = expensive_starts
        /\ gate' = NoGate
        /\ UNCHANGED << is_running, search_cancelled, search_cooldowns,
                        search_stats, stats_file, now, issued,
                        reg_log, recorded, call, returned,
                        keyword_match_cache, hash_seed, message_cache, text_channel, CONFIG >>

\* main.py 2013-2060: one turn of "async for message in
\* channel.history(limit=query_limit)": the next message arrived, the history
\* ended, or the fetch raised discord.Forbidden
badscan_msgs(t) ==
    LET j == job[t]
        channels == badscan_channels(j.include)
        ok == ~forbidden(channels[j.chan])
        msgs == History(channels[j.chan], query_limit(j))
        m == msgs[j.pos + 1]
        read == [j EXCEPT !.pos = @ + 1]
        counted == [read EXCEPT !.total = @ + 1,
                                !.found = IF m.hit THEN @ + 1 ELSE @]
        n == IF ~ok \/ j.pos >= Len(msgs)
             THEN badscan_next_channel(j, channels)
             ELSE IF j.users /\ m.author # "target"
                  THEN read
                  ELSE IF search_cancelled
                  THEN badscan_next_channel(
                          [counted EXCEPT !.at_seen = IF @ = NoCount
                                                      THEN counted.total ELSE @],
                          channels)
                  ELSE IF counted.found >= MatchCap
                  THEN badscan_next_channel(
                          [counted EXCEPT !.missed = @ \/ j.asked], channels)
                  ELSE [counted EXCEPT !.missed = @ \/ j.asked]
    IN  /\ j.pc = "msgs" /\ j.kind = "badscan"
        /\ Goto(t, n)
        /\ gate' = NoGate
        /\ UNCHANGED << is_running, search_cancelled, search_cooldowns,
                        search_stats, stats_file, now, issued,
                        expensive_starts, reg_log, recorded, call, returned,
                        keyword_match_cache, hash_seed, message_cache, text_channel, CONFIG >>

\* main.py 2062-2124: the summary edit is over, or raised and the error was
\* sent; finally.  A job that left the loop by the flag writes the same
\* summary as one that finished.  No stats.
badscan_report(t, ok) ==
    LET j == job[t]
        outcome == IF j.at_seen # NoCount THEN "cancelled" ELSE "completed"
    IN  /\ j.pc = "report" /\ j.kind = "badscan"
        /\ Cleanup("badscan")
        /\ Return(t, IF ok
                     THEN [Ended(j, outcome, "complete") EXCEPT
                              !.channels = IF j.found = 0 THEN j.chan ELSE NoCount,
                              !.messages = j.total, !.matches = j.found]
                     ELSE Ended(j, "error", "error"))
        /\ gate' = NoGate
        /\ UNCHANGED << search_cooldowns, search_stats, stats_file, now, issued,
                        expensive_starts, reg_log, recorded, call, returned,
                        keyword_match_cache, hash_seed, message_cache, text_channel, CONFIG >>

BadscanSteps(t, typed) ==
    \/ \E a \in typed : badscan_invoke(t, a)
    \/ \E b \in BOOLEAN : badscan_user(t, b)
    \/ \E b \in BOOLEAN : badscan_status(t, b)
    \/ badscan_msgs(t)
    \/ \E b \in BOOLEAN : badscan_report(t, b)

(* ------------------------------------------------ the registry by itself *)
\* setup_command_execution(<handler of kind k>)
acquire(k) ==
    LET r == setup_command_execution(is_running[k])
    IN  /\ Len(reg_log) < MaxOps
        /\ is_running' = Flag(k, r.flag)
        /\ reg_log' = Append(reg_log, [op |-> "acquire", kind |-> k, ok |-> r.ok,
                                       before |-> is_running[k], after |-> r.flag])
        /\ UNCHANGED << search_cancelled, search_cooldowns, search_stats,
                        stats_file, now, job, answer, gate, issued,
                        expensive_starts, recorded, call, returned,
                        keyword_match_cache, hash_seed, message_cache, text_channel, CONFIG >>

\* <handler of kind k>.is_running = False
release(k) ==
    /\ Len(reg_log) < MaxOps
    /\ is_running' = Flag(k, "False")
    /\ reg_log' = Append(reg_log, [op |-> "release", kind |-> k, ok |-> TRUE,
                                   before |-> is_running[k], after |-> "False"])
    /\ UNCHANGED << search_cancelled, search_cooldowns, search_stats,
                    stats_file, now, job, answer, gate, issued,
                    expensive_starts, recorded, call, returned,
                    keyword_match_cache, hash_seed, message_cache, text_channel, CONFIG >>

NextRegistry == \E k \in Kinds : acquire(k) \/ release(k)

SpecRegistry == Init /\ [][NextRegistry]_vars

(* ----------------------------------------------- the stats store by itself *)
\* update_search_stats(...); save_search_stats() at the end of a search job
\* that scanned m messages and found n
record_search(m, n) ==
    /\ Len(recorded) < MaxJobs
    /\ search_stats' = update_search_stats(search_stats, GuildId, Requester,
                                           m, n, 0, now)
    /\ stats_file' = save_search_stats(search_stats')
    /\ recorded' = Append(recorded, m)
    /\ UNCHANGED << is_running, search_cancelled, search_cooldowns, now, job,
                    answer, gate, issued, expensive_starts, reg_log,
                    call, returned,
                    keyword_match_cache, hash_seed, message_cache, text_channel, CONFIG >>

\* the inline update and save_search_stats() at the end of a regex or export
\* job that scanned m messages and found n
record_inline(m, n) ==
    /\ Len(recorded) < MaxJobs
    /\ search_stats' = inline_update_stats(search_stats, GuildId, Requester,
                                           "target", Keyword, m, n, 0)
    /\ stats_file' = save_search_stats(search_stats')
    /\ recorded' = Append(recorded, m)
    /\ UNCHANGED << is_running, search_cancelled, search_cooldowns, now, job,
                    answer, gate, issued, expensive_starts, reg_log,
                    call, returned,
                    keyword_match_cache, hash_seed, message_cache, text_channel, CONFIG >>

NextStats ==
    \E m \in 0..MaxMsgs : \E n \in 0..Min(m, 1) :
        record_search(m, n) \/ record_inline(m, n)

SpecStats == Init /\ [][NextStats]_vars

(* ------------------------------------------------ parse_query_limit alone *)
\* longest --q value typed
MaxLen == 4

\* the characters --q values are typed from
Chars == {"0", "1", "k", "K", "M", "i", "n", "f"}

\* str.lower() on one character
lower_char(c) ==
    CASE c = "K" -> "k"
      [] c = "M" -> "m"
      [] c = "A" -> "a"
      [] c = "I" -> "i"
      [] c = "B" -> "b"
      [] OTHER -> c

\* str.lower()
lower(s) == [i \in 1..Len(s) |-> lower_char(s[i])]

Digits == {"0", "1"}
digit_value(c) == IF c = "1" THEN 1 ELSE 0

\* the value of a string of decimal digits
RECURSIVE decimal(_)
decimal(s) ==
    IF s = <<>> THEN 0
    ELSE 10 * decimal(SubSeq(s, 1, Len(s) - 1)) + digit_value(s[Len(s)])

all_digits(s) == s # <<>> /\ \A i \in 1..Len(s) : s[i] \in Digits

\* what a conversion gives: a value, or the exception it raises
Value(v) == [raised |-> "none", value |-> v]
Raised(e) == [raised |-> e, value |-> 0]
None == [raised |-> "none", value |-> NoQ]

\* int(s) on the characters above: the digits' value, else ValueError
to_int(s) == IF all_digits(s) THEN Value(decimal(s)) ELSE Raised("ValueError")

\* int(float(s) * factor) on the characters above: float reads a digit
\* string and "inf"; int of an infinite float raises OverflowError
float_times(s, factor) ==
    IF all_digits(s) THEN Value(decimal(s) * factor)
    ELSE IF s = << "i", "n", "f" >> THEN Raised("OverflowError")
    ELSE Raised("ValueError")

\* parse_query_limit(limit_str): ValueError is caught and gives None, any
\* other exception leaves the function
parse_query_limit(limit_str) ==
    LET s == lower(limit_str)
        body == SubSeq(s, 1, Len(s) - 1)
        r == IF s # <<>> /\ s[Len(s)] = "k" THEN float_times(body, 1000)
             ELSE IF s # <<>> /\ s[Len(s)] = "m" THEN float_times(body, 1000000)
             ELSE to_int(s)
    IN  IF r.raised = "ValueError" THEN None ELSE r

\* one more character of the value is typed and the value parsed
type_limit(c) ==
    /\ Len(call) < MaxLen
    /\ call' = Append(call, c)
    /\ returned' = parse_query_limit(call')
    /\ UNCHANGED << is_running, search_cancelled, search_cooldowns, search_stats,
                    stats_file, now, job, answer, gate, issued,
                    expensive_starts, reg_log, recorded,
                    keyword_match_cache, hash_seed, message_cache, text_channel, CONFIG >>

NextParse == \E c \in Chars : type_limit(c)

SpecParse == Init /\ [][NextParse]_vars

(* ---------------------------------------------- the channel sets by itself *)
\* longest --in and --exclude list typed
MaxNames == 2

\* the channel specifiers typed after --in and --exclude
Specifiers ==
    {Specifier(h, n) : h \in BOOLEAN, n \in {"general", "secret", "nosuch"}}

SpecifierLists ==
    UNION {[1..n -> Specifiers] : n \in 0..MaxNames}

\* the three ways the handlers resolve --in and --exclude: the helper of
\* search, the code written inline in scan, regex and export, and badscan's
resolve(include, exclude) ==
    /\ call = <<>>
    /\ call' = [include |-> include, exclude |-> exclude]
    /\ returned' = [search |-> process_search_channels(include, exclude),
                    inline |-> inline_search_channels(include, exclude),
                    badscan |-> badscan_channels(include)]
    /\ UNCHANGED << is_running, search_cancelled, search_cooldowns, search_stats,
                    stats_file, now, job, answer, gate, issued,
                    expensive_starts, reg_log, recorded,
                    keyword_match_cache, hash_seed, message_cache, text_channel, CONFIG >>

NextChannels == \E include \in SpecifierLists, exclude \in SpecifierLists :
                    resolve(include, exclude)

SpecChannels == Init /\ [][NextChannels]_vars

\* Two invocations race: the first with any arguments, the other with the
\* plain form of its command.
(* ---- the literal match of search_messages and export_results ---- *)

MaxKeyword == 2
MaxContent == 3

\* letters a message or a keyword is typed from: two ASCII letters in both
\* cases and the dotless i (U+0131, written "dotless_i"), whose upper case
\* is the ASCII "I"
Letters == {"a", "A", "i", "I", "dotless_i"}

\* str.upper() of one character
upper_char(c) ==
    CASE c = "a" -> "A"
      [] c = "i" -> "I"
      [] c = "dotless_i" -> "I"
      [] c = "b" -> "B"
      [] OTHER -> c

\* the `in` operator of two strings
is_substring(needle, hay) ==
    \E i \in 0..(Len(hay) - Len(needle)) : SubSeq(hay, i + 1, i + Len(needle)) = needle

literal_match_content_as_typed(keyword, content) == is_substring(lower(keyword), content)

\* keyword.lower() in msg.content.lower()
literal_match(keyword, content) == is_substring(lower(keyword), lower(content))

type_keyword(c) ==
    /\ IF call = <<>> THEN TRUE ELSE Len(call.keyword) < MaxKeyword /\ call.content = <<>>
    /\ LET keyword == IF call = <<>> THEN <<c>> ELSE Append(call.keyword, c)
       IN  /\ call' = [keyword |-> keyword, content |-> <<>>]
           /\ returned' = literal_match(keyword, <<>>)
    /\ UNCHANGED <<is_running, search_cancelled, search_cooldowns, search_stats, stats_file,
                   now, job, answer, gate, issued, expensive_starts, reg_log, recorded,
                    keyword_match_cache, hash_seed, message_cache, text_channel, CONFIG >>

type_content(c) ==
    /\ call # <<>>
    /\ Len(call.content) < MaxContent
    /\ LET content == Append(call.content, c)
       IN  /\ call' = [call EXCEPT !.content = content]
           /\ returned' = literal_match(call.keyword, content)
    /\ UNCHANGED <<is_running, search_cancelled, search_cooldowns, search_stats, stats_file,
                   now, job, answer, gate, issued, expensive_starts, reg_log, recorded,
                    keyword_match_cache, hash_seed, message_cache, text_channel, CONFIG >>

NextMatch == \E c \in Letters : type_keyword(c) \/ type_content(c)

SpecMatch == Init /\ [][NextMatch]_vars

(* ---- text_contains_bad_word of scan_bad_words ---- *)

MaxText == 4

\* characters of a message: letters, a character that is not a word character,
\* and the space
TextChars == {"a", "A", "b", "$", " "}

\* the lines of the lexicon file, stripped and lowercased
bad_words == {<<"a", "b">>, <<"a", "$">>, <<"b", "$">>}

Strictness == {"low", "medium", "high"}

startswith(text, prefix) ==
    Len(prefix) <= Len(text) /\ SubSeq(text, 1, Len(prefix)) = prefix

endswith(text, suffix) ==
    Len(suffix) <= Len(text) /\ SubSeq(text, Len(text) - Len(suffix) + 1, Len(text)) = suffix

\* the test of the "low" branch
low_match(text, word) ==
    \/ is_substring(<<" ">> \o word \o <<" ">>, <<" ">> \o text \o <<" ">>)
    \/ text = word
    \/ startswith(text, word \o <<" ">>)
    \/ endswith(text, <<" ">> \o word)

\* \w of the regular expressions
word_char(text, i) == i \in 1..Len(text) /\ text[i] \in {"a", "A", "b"}

\* \b between positions i and i + 1 of the text
boundary(text, i) == word_char(text, i) # word_char(text, i + 1)

\* re.search(r'\b' + re.escape(word) + r'\b', text)
medium_match(text, word) ==
    \E i \in 0..(Len(text) - Len(word)) :
        /\ SubSeq(text, i + 1, i + Len(word)) = word
        /\ boundary(text, i)
        /\ boundary(text, i + Len(word))

\* the characters that follow the class of a vowel in the pattern of the
\* "high" branch: the quantifier is written {'0,2} and is read literally
VowelTail == <<"{", "'", "0", ",", "2", "}">>

RECURSIVE high_match_at(_, _, _, _)
\* the pattern built from word[j..] matches the text at position i
high_match_at(text, i, word, j) ==
    IF j > Len(word) THEN TRUE
    ELSE IF i > Len(text) THEN FALSE
    ELSE IF lower_char(word[j]) \in {"a", "e", "i", "o", "u"}
         THEN /\ text[i] \in {word[j], "1", "!", "i", "I", "|"}
              /\ startswith(SubSeq(text, i + 1, Len(text)), VowelTail)
              /\ high_match_at(text, i + 1 + Len(VowelTail), word, j + 1)
         ELSE /\ text[i] \in {lower_char(word[j]), upper_char(word[j])}
              /\ \/ high_match_at(text, i + 1, word, j + 1)
                 \/ /\ i + 1 <= Len(text)
                    /\ text[i + 1] \in {lower_char(word[j]), upper_char(word[j])}
                    /\ high_match_at(text, i + 2, word, j + 1)

high_match(text, word) == \E i \in 1..Len(text) : high_match_at(text, i, word, 1)

\* found_words, as the set of its entries (bad_words is iterated as a set)
text_contains_bad_word(typed, strictness_level) ==
    LET text == lower(typed)
    IN  {word \in bad_words :
            CASE strictness_level = "low" -> low_match(text, word)
              [] strictness_level = "medium" -> medium_match(text, word)
              [] strictness_level = "high" -> high_match(text, word)
              [] OTHER -> FALSE}

choose_strictness(level) ==
    /\ call = <<>>
    /\ call' = [text |-> <<>>, strictness |-> level]
    /\ returned' = text_contains_bad_word(<<>>, level)
    /\ UNCHANGED <<is_running, search_cancelled, search_cooldowns, search_stats, stats_file,
                   now, job, answer, gate, issued, expensive_starts, reg_log, recorded,
                    keyword_match_cache, hash_seed, message_cache, text_channel, CONFIG >>

type_text(c) ==
    /\ call # <<>>
    /\ Len(call.text) < MaxText
    /\ LET text == Append(call.text, c)
       IN  /\ call' = [call EXCEPT !.text = text]
           /\ returned' = text_contains_bad_word(text, call.strictness)
    /\ UNCHANGED <<is_running, search_cancelled, search_cooldowns, search_stats, stats_file,
                   now, job, answer, gate, issued, expensive_starts, reg_log, recorded,
                    keyword_match_cache, hash_seed, message_cache, text_channel, CONFIG >>

NextLexicon ==
    \/ \E level \in Strictness : choose_strictness(level)
    \/ \E c \in TextChars : type_text(c)

SpecLexicon == Init /\ [][NextLexicon]_vars

(* ---- load_search_stats at startup ---- *)

MaxStored == 3

\* documents an earlier run can have stored
StoredDocuments ==
    {[DefaultStats EXCEPT !.total_searches = a, !.total_messages_searched = b,
                          !.cancelled_searches = c, !.largest_search.messages = d] :
        a \in 0..MaxStored, b \in 0..MaxStored, c \in 0..MaxStored, d \in 0..MaxStored}

\* search_stats.json as the process finds it
FilesAtStartup == {<<>>, << Unparsable >>} \cup {<< d >> : d \in StoredDocuments}

\* main.py 884: search_stats = load_search_stats()
startup(file) ==
    /\ call = <<>>
    /\ call' = [file |-> file]
    /\ returned' = load_search_stats(file)
    /\ UNCHANGED <<is_running, search_cancelled, search_cooldowns, search_stats, stats_file,
                   now, job, answer, gate, issued, expensive_starts, reg_log, recorded,
                    keyword_match_cache, hash_seed, message_cache, text_channel, CONFIG >>

NextLoad == \E file \in FilesAtStartup : startup(file)

SpecLoad == Init /\ [][NextLoad]_vars

(* ---- keyword_match and its memo ---- *)

MaxSeed == 1
KeySpace == 3
MaxTextLen == 2

\* {k.lower() for k in CONFIG["search_keywords"]}, evaluated once, when the
\* module is loaded
KEYWORD_SET == {lower(k) : k \in StartupKeywords}

KeywordChars == {"a", "b", "A"}
Texts == UNION {[1..n -> KeywordChars] : n \in 1..MaxTextLen}

char_code(c) == CASE c = "a" -> 1 [] c = "b" -> 2 [] OTHER -> 3

RECURSIVE str_hash(_, _)
\* hash(text) of a process whose hash seed is seed: some function of the
\* characters, different from seed to seed
str_hash(text, seed) ==
    IF text = <<>> THEN seed
    ELSE (seed + 2) * str_hash(SubSeq(text, 1, Len(text) - 1), seed) + char_code(text[Len(text)])

\* hash(text) % 10000000, with KeySpace keys for the 10000000
cache_key(text, seed) == str_hash(text, seed) % KeySpace

\* any(k in text_lower for k in KEYWORD_SET)
any_keyword(text) == \E k \in KEYWORD_SET : is_substring(k, lower(text))

\* what keyword_match(text) returns with the memo as it is
keyword_match_result(text, cache, seed) ==
    IF cache_key(text, seed) \in DOMAIN cache
    THEN cache[cache_key(text, seed)]
    ELSE any_keyword(text)

\* the interpreter draws the seed of str hashing
draw_hash_seed(seed) ==
    /\ hash_seed = NoSeed
    /\ hash_seed' = seed
    /\ UNCHANGED <<is_running, search_cancelled, search_cooldowns, search_stats, stats_file,
                   now, job, answer, gate, issued, expensive_starts, reg_log, recorded,
                   call, returned, keyword_match_cache, message_cache,
                   text_channel, CONFIG>>

\* keyword_match(text)
keyword_match(text) ==
    /\ hash_seed # NoSeed
    /\ call' = text
    /\ returned' = keyword_match_result(text, keyword_match_cache, hash_seed)
    /\ keyword_match_cache' =
          [k \in DOMAIN keyword_match_cache \cup {cache_key(text, hash_seed)} |-> 
              IF k \in DOMAIN keyword_match_cache THEN keyword_match_cache[k] ELSE returned']
    /\ UNCHANGED <<is_running, search_cancelled, search_cooldowns, search_stats, stats_file,
                   now, job, answer, gate, issued, expensive_starts, reg_log, recorded,
                   hash_seed, message_cache, text_channel, CONFIG>>

\* an entry of the TTLCache expires, or is evicted at maxsize
expire(key) ==
    /\ key \in DOMAIN keyword_match_cache
    /\ keyword_match_cache' = [k \in DOMAIN keyword_match_cache \ {key} |-> keyword_match_cache[k]]
    /\ UNCHANGED <<is_running, search_cancelled, search_cooldowns, search_stats, stats_file,
                   now, job, answer, gate, issued, expensive_starts, reg_log, recorded,
                   call, returned, hash_seed, message_cache, text_channel, CONFIG>>

\* the lists an admin gives to setkeywords
KeywordLists == {{<<"a", "b">>}, {<<"b">>}, {<<"A">>}}

\* set_keywords(ctx, words): refused to a member who is not an admin;
\* save_config writes CONFIG to its file
set_keywords(is_admin, new_words) ==
    /\ CONFIG' = IF is_admin THEN [CONFIG EXCEPT !.search_keywords = new_words]
                 ELSE CONFIG
    /\ UNCHANGED <<is_running, search_cancelled, search_cooldowns, search_stats, stats_file,
                   now, job, answer, gate, issued, expensive_starts, reg_log, recorded,
                   call, returned, keyword_match_cache, hash_seed, message_cache,
                   text_channel>>

NextKeyword ==
    \/ \E is_admin \in BOOLEAN, new_words \in KeywordLists :
          set_keywords(is_admin, new_words)
    \/ \E seed \in 0..MaxSeed : draw_hash_seed(seed)
    \/ \E text \in Texts : keyword_match(text)
    \/ \E key \in 0..(KeySpace - 1) : expire(key)

SpecKeyword == Init /\ [][NextKeyword]_vars

(* ---- the throttle of the progress edits ---- *)

ProgressSeconds == 5
RegexProgressSeconds == 30

\* the instants at which a running job reads the clock, in ticks: around one
\* and two throttle intervals of either length
ProgressPoints ==
    LET f == ProgressSeconds * TicksPerSecond
        r == RegexProgressSeconds * TicksPerSecond
    IN  {0, f - 1, f, f + 1, 2 * f, 2 * f + 1, 2 * f + 2,
         r, r + 1, r + f + 1, 2 * r + 1, 2 * r + 2}

progress_due_always(kind, elapsed) == TRUE

\* the test before each progress edit, elapsed in ticks:
\* "> 5" in update_search_status, scan_members and export_results,
\* "> 30" in regex_search, ">= 5" in scan_bad_words
progress_due(kind, elapsed) ==
    CASE kind = "regex" -> elapsed > RegexProgressSeconds * TicksPerSecond
      [] kind = "badscan" -> elapsed >= ProgressSeconds * TicksPerSecond
      [] OTHER -> elapsed > ProgressSeconds * TicksPerSecond

\* whether the job goes on after a progress edit raised: search reports the
\* channel's error and takes the next channel; regex takes the next channel on
\* discord.Forbidden and ends otherwise; export, scan and badscan end
survives_failed_edit(kind) ==
    CASE kind = "search" -> {TRUE}
      [] kind = "regex" -> {TRUE, FALSE}
      [] OTHER -> {FALSE}

\* start_time = datetime.now(); last_update_time = start_time
start_progress(kind) ==
    /\ call = <<>>
    /\ call' = [kind |-> kind, start_time |-> now, last_update_time |-> now, edits |-> <<>>]
    /\ returned' = FALSE
    /\ UNCHANGED <<is_running, search_cancelled, search_cooldowns, search_stats, stats_file,
                   now, job, answer, gate, issued, expensive_starts, reg_log, recorded,
                   keyword_match_cache, hash_seed, message_cache, text_channel, CONFIG>>

\* one turn of the loop that holds the throttle: the clock is read, and when
\* the edit is due it is awaited (ok: it returned) and last_update_time set.
\* edits: the times of the progress edits made so far; returned: whether
\* this turn made one.
progress_turn(ok, goes_on) ==
    /\ call # <<>>
    /\ goes_on \in survives_failed_edit(call.kind)
    /\ LET current_time == now
           due == progress_due(call.kind, current_time - call.last_update_time)
       IN  IF ~due
           THEN call' = call /\ returned' = FALSE
           ELSE IF ok
           THEN /\ call' = [call EXCEPT !.last_update_time = current_time,
                                        !.edits = Append(@, current_time)]
                /\ returned' = TRUE
           ELSE /\ call' = IF goes_on THEN call ELSE <<>>
                /\ returned' = FALSE
    /\ UNCHANGED <<is_running, search_cancelled, search_cooldowns, search_stats, stats_file,
                   now, job, answer, gate, issued, expensive_starts, reg_log, recorded,
                   keyword_match_cache, hash_seed, message_cache, text_channel, CONFIG>>

\* the job ends
end_progress ==
    /\ call # <<>>
    /\ call' = <<>>
    /\ returned' = FALSE
    /\ UNCHANGED <<is_running, search_cancelled, search_cooldowns, search_stats, stats_file,
                   now, job, answer, gate, issued, expensive_starts, reg_log, recorded,
                   keyword_match_cache, hash_seed, message_cache, text_channel, CONFIG>>

\* the clock moves on while the job awaits
pass_time(p) ==
    /\ p > now
    /\ now' = p
    /\ UNCHANGED <<is_running, search_cancelled, search_cooldowns, search_stats, stats_file,
                   job, answer, gate, issued, expensive_starts, reg_log, recorded,
                   call, returned, keyword_match_cache, hash_seed, message_cache, text_channel, CONFIG>>

NextProgress ==
    \/ \E kind \in Kinds : start_progress(kind)
    \/ \E ok \in BOOLEAN, goes_on \in BOOLEAN : progress_turn(ok, goes_on)
    \/ end_progress
    \/ \E p \in ProgressPoints : pass_time(p)

SpecProgress == Init /\ [][NextProgress]_vars

(* ---- the result messages of regex_search and search_messages ---- *)

MaxMatches == 5

PayloadLimit == 2000
FlushAbove == 1800
ContentCap == 500
PreviewCap == 100
PreviewCount == 5

\* lengths of the text around the content of one listed match: number,
\* channel name, timestamp and jump link in regex_search; date and channel
\* name in search_messages; and of the line that opens the result
EntryOverhead == 150
PreviewOverhead == 40
HeaderLength == 100

\* len(msg.content) of the matches
ContentLengths == {10, 300, 600}

\* msg.content if len(msg.content) <= 500 else msg.content[:497] + "..."
regex_content(n) == IF n <= ContentCap THEN n ELSE (ContentCap - 3) + 3

\* msg.content[:100] followed by "..." when the content is longer
preview_content(n) == IF n > PreviewCap THEN PreviewCap + 3 ELSE n

\* the formatting of a job's matches starts: result holds the opening line
format_results(kind) ==
    /\ call = <<>>
    /\ call' = [kind |-> kind, listed |-> 0, result |-> HeaderLength, done |-> FALSE]
    /\ returned' = <<>>
    /\ UNCHANGED <<is_running, search_cancelled, search_cooldowns, search_stats, stats_file,
                   now, job, answer, gate, issued, expensive_starts, reg_log, recorded,
                   keyword_match_cache, hash_seed, message_cache, text_channel, CONFIG>>

\* one turn of the loop over found_messages; returned: the lengths of the
\* messages sent so far.  regex_search sends result once it is longer than
\* 1800 and starts anew; search_messages lists the first five matches.
format_match(n) ==
    /\ call # <<>> /\ ~call.done
    /\ call.listed < MaxMatches
    /\ IF call.kind = "regex"
       THEN LET result == call.result + EntryOverhead + regex_content(n)
            IN  IF result > FlushAbove
                THEN /\ returned' = Append(returned, result)
                     /\ call' = [call EXCEPT !.listed = @ + 1, !.result = 0]
                ELSE /\ returned' = returned
                     /\ call' = [call EXCEPT !.listed = @ + 1, !.result = result]
       ELSE /\ returned' = returned
            /\ call' = [call EXCEPT
                          !.listed = @ + 1,
                          !.result = IF call.listed < PreviewCount
                                     THEN @ + PreviewOverhead + preview_content(n)
                                     ELSE @]
    /\ UNCHANGED <<is_running, search_cancelled, search_cooldowns, search_stats, stats_file,
                   now, job, answer, gate, issued, expensive_starts, reg_log, recorded,
                   keyword_match_cache, hash_seed, message_cache, text_channel, CONFIG>>

\* after the loop: regex_search sends what is left, search_messages edits
\* the status message with result_text[:2000]
format_end ==
    /\ call # <<>> /\ ~call.done
    /\ call.listed > 0
    /\ call' = [call EXCEPT !.done = TRUE]
    /\ returned' = IF call.kind = "regex"
                   THEN (IF call.result > 0 THEN Append(returned, call.result) ELSE returned)
                   ELSE Append(returned, Min(call.result, PayloadLimit))
    /\ UNCHANGED <<is_running, search_cancelled, search_cooldowns, search_stats, stats_file,
                   now, job, answer, gate, issued, expensive_starts, reg_log, recorded,
                   keyword_match_cache, hash_seed, message_cache, text_channel, CONFIG>>

NextPayload ==
    \/ \E kind \in {"search", "regex"} : format_results(kind)
    \/ \E n \in ContentLengths : format_match(n)
    \/ format_end

SpecPayload == Init /\ [][NextPayload]_vars

(* ---------------------------------------------------------- message cache *)
\* get_cached_messages, applied to one channel whose history grows while
\* the bot runs.  A page is the newest `limit` message ids, newest first.
MaxPosts == 2
PageLimits == {1, 2}
ChannelId == "general"

\* channel.history(limit=limit) of the channel as it is now
history_page(limit) ==
    [i \in 1..Min(limit, text_channel.posts) |-> text_channel.posts + 1 - i]

\* message_cache.get(cache_key, [])
cached_page(cache, page_key) ==
    IF page_key \in DOMAIN cache THEN cache[page_key] ELSE <<>>

\* The condition under which the function asks the channel for its history.
must_fetch(force_refresh, page_key) ==
    force_refresh \/ page_key \notin DOMAIN message_cache

\* get_cached_messages(channel_id, limit, force_refresh): bot.get_channel
\* gives None for a channel the bot no longer knows, and then nothing is
\* fetched or stored.
get_cached_messages(limit, force_refresh) ==
    LET page_key == <<ChannelId, limit>>
        fetches == must_fetch(force_refresh, page_key) /\ text_channel.known
        cache == IF fetches
                 THEN [k \in DOMAIN message_cache \cup {page_key} |->
                          IF k = page_key THEN history_page(limit)
                          ELSE message_cache[k]]
                 ELSE message_cache
    IN /\ message_cache' = cache
       /\ call' = [limit |-> limit, force_refresh |-> force_refresh,
                   stored |-> page_key \in DOMAIN message_cache,
                   before |-> cached_page(message_cache, page_key),
                   fresh |-> history_page(limit)]
       /\ returned' = [page |-> cached_page(cache, page_key), fetched |-> fetches]
       /\ UNCHANGED <<is_running, search_cancelled, search_cooldowns, search_stats,
                      stats_file, now, job, answer, gate, issued, expensive_starts,
                      reg_log, recorded, keyword_match_cache, hash_seed, text_channel, CONFIG>>

\* A message is posted in the channel.
post_message ==
    /\ text_channel.known
    /\ text_channel.posts < MaxPosts
    /\ text_channel' = [text_channel EXCEPT !.posts = @ + 1]
    /\ UNCHANGED <<is_running, search_cancelled, search_cooldowns, search_stats,
                   stats_file, now, job, answer, gate, issued, expensive_starts,
                   reg_log, recorded, call, returned, keyword_match_cache, hash_seed,
                   message_cache, CONFIG>>

\* The channel is deleted: bot.get_channel no longer finds it.
delete_channel ==
    /\ text_channel.known
    /\ text_channel' = [text_channel EXCEPT !.known = FALSE]
    /\ UNCHANGED <<is_running, search_cancelled, search_cooldowns, search_stats,
                   stats_file, now, job, answer, gate, issued, expensive_starts,
                   reg_log, recorded, call, returned, keyword_match_cache, hash_seed,
                   message_cache, CONFIG>>

\* An entry reaches its ttl of 300 seconds and leaves the TTLCache.
expire_page(page_key) ==
    /\ page_key \in DOMAIN message_cache
    /\ message_cache' = [k \in DOMAIN message_cache \ {page_key} |-> message_cache[k]]
    /\ UNCHANGED <<is_running, search_cancelled, search_cooldowns, search_stats,
                   stats_file, now, job, answer, gate, issued, expensive_starts,
                   reg_log, recorded, call, returned, keyword_match_cache, hash_seed,
                   text_channel, CONFIG>>

NextCache ==
    \/ \E limit \in PageLimits, force_refresh \in BOOLEAN :
          get_cached_messages(limit, force_refresh)
    \/ post_message
    \/ delete_channel
    \/ \E limit \in PageLimits : expire_page(<<ChannelId, limit>>)

SpecCache == Init /\ [][NextCache]_vars

(* ----------------------------------------------- parse_command_args by itself *)
\* longest argument list typed
MaxArgs == 3

\* The tokens typed after a command: a user id (which is also a valid query
\* limit), a word, and flags; "--users" and "--messages", which only scan
\* accepts, are not typed.
Tokens == {"42", "word", "--q", "--in", "--all", "--ALL", "--debug"}

ArgLists == UNION {[1..n -> Tokens] : n \in 0..MaxArgs}

\* args[i].lower()
token_lower(tok) == IF tok = "--ALL" THEN "--all" ELSE tok

\* parse_query_limit of a token: None (NoQ) unless it is a number
token_limit(tok) == IF tok = "42" THEN 42 ELSE NoQ

NoFlags ==
    [query_limit |-> NoQ, error |-> FALSE, include_channels |-> "none",
     deep_search |-> FALSE, debug |-> FALSE]

\* One turn of the while loop for each i.  The first if/elif chain ends at
\* "--all"; `if "--debug" in args` opens a second chain, whose else branch
\* appends args[i] with i as the first chain left it.
RECURSIVE parse_args_from(_, _, _, _)
parse_args_from(args, i, processed_args, flags) ==
    IF i > Len(args)
    THEN [processed_args |-> processed_args, flags |-> flags]
    ELSE LET arg == token_lower(args[i])
             more == i + 1 <= Len(args)
             takes_q == more /\ arg = "--q"
             limit == IF takes_q THEN token_limit(args[i + 1]) ELSE NoQ
             takes_in == ~takes_q /\ more /\ arg = "--in"
             is_all == ~takes_q /\ ~takes_in /\ arg = "--all"
             skip == IF (takes_q /\ limit # NoQ) \/ takes_in THEN 1 ELSE 0
             debug == \E k \in 1..Len(args) : args[k] = "--debug"
             f == [flags EXCEPT
                      !.query_limit = IF takes_q /\ limit # NoQ THEN limit ELSE @,
                      !.error = @ \/ (takes_q /\ limit = NoQ),
                      !.include_channels = IF takes_in THEN args[i + 1] ELSE @,
                      !.deep_search = @ \/ is_all,
                      !.debug = @ \/ debug]
             p == IF debug THEN processed_args
                  ELSE Append(processed_args, args[i + skip])
         IN  parse_args_from(args, i + skip + 1, p, f)

parse_command_args(args) == parse_args_from(args, 1, <<>>, NoFlags)

\* A command is typed and its arguments are parsed.
type_args(args) ==
    /\ call = <<>>
    /\ call' = [args |-> args]
    /\ returned' = parse_command_args(args)
    /\ UNCHANGED << is_running, search_cancelled, search_cooldowns, search_stats,
                    stats_file, now, job, answer, gate, issued,
                    expensive_starts, reg_log, recorded,
                    keyword_match_cache, hash_seed, message_cache, text_channel, CONFIG >>

NextArgs == \E args \in ArgLists : type_args(args)

SpecArgs == Init /\ [][NextArgs]_vars

ArgsOf(t) == IF t = 1 THEN Args ELSE PlainArgs
TargetArgsOf(t) == IF t = 1 THEN TargetArgs ELSE PlainTargetArgs
UserArgsOf(t) == IF t = 1 THEN UserArgs ELSE PlainUserArgs

Next ==
    \/ \E t \in Tasks, k \in Kinds : cancel_command(t, k)
    \/ \E t \in Tasks : SearchSteps(t, ArgsOf(t))
    \/ \E t \in Tasks : RegexSteps(t, ArgsOf(t))
    \/ \E t \in Tasks : ExportSteps(t, ArgsOf(t))
    \/ \E t \in Tasks : ScanSteps(t, TargetArgsOf(t))
    \/ \E t \in Tasks : BadscanSteps(t, UserArgsOf(t))

Spec == Init /\ [][Next]_vars

\* One job after the other, with well-formed arguments, the clock moving
\* between them; cancel requests come in while a job runs.
NextClock ==
    \/ Tick
    \/ \E k \in Kinds : cancel_command(2, k)
    \/ SearchSteps(1, WellFormed(Args))
    \/ RegexSteps(1, WellFormed(Args))
    \/ ExportSteps(1, WellFormed(Args))
    \/ ScanSteps(1, WellFormed(TargetArgs))
    \/ BadscanSteps(1, WellFormed(UserArgs))

SpecClock == Init /\ [][NextClock]_vars

\* the values of --q typed in the runs below, and the arguments they give:
\* flags["query_limit"] is what parse_query_limit returns
TypedLimits == {<<"0">>, <<"1">>}

WithTypedLimits(typed) ==
    {[a EXCEPT !.q = parse_query_limit(s).value] :
        a \in {b \in typed : b.q # NoQ}, s \in TypedLimits} \cup typed

\* One job after the other, with well-formed arguments and the typed values
\* of --q; cancel requests come in while a job runs.
NextLimit ==
    \/ \E k \in Kinds : cancel_command(2, k)
    \/ SearchSteps(1, WithTypedLimits(WellFormed(Args)))
    \/ RegexSteps(1, WithTypedLimits(WellFormed(Args)))
    \/ ExportSteps(1, WithTypedLimits(WellFormed(Args)))
    \/ ScanSteps(1, WithTypedLimits(WellFormed(TargetArgs)))
    \/ BadscanSteps(1, WithTypedLimits(WellFormed(UserArgs)))

SpecLimit == Init /\ [][NextLimit]_vars

(* ============================================================ properties *)
Idle == \A t \in Tasks : ~InFlight(t)

\* C1: for every kind, once every handler of that kind has returned, the
\* kind's is_running flag is not set, whichever way the handlers ended.
C1_SlotReleased ==
    \A k \in Kinds :
        (\A t \in Tasks : job[t].kind # k) => is_running[k] # "True"

\* C2: no two invocations of the same kind are past the "already running"
\* test at the same time.
C2_OneJobPerKind ==
    \A t1, t2 \in Tasks :
        (t1 # t2 /\ InFlight(t1) /\ InFlight(t2)) => job[t1].kind # job[t2].kind

\* C3: a job whose kind's cancel was accepted while it held the slot finds
\* the flag set at every poll point it reaches afterwards, whatever the
\* other handlers do in between.
C3_AcceptedCancelIsSeen ==
    /\ \A t \in Tasks : ~job[t].missed
    /\ ~answer.missed

\* C4: a job that observed the cancellation flag has scanned nothing since,
\* and the message it ends with states the number of messages it had scanned
\* when it observed the flag.
C4_CancelSummaryCount ==
    (answer.outcome = "cancelled") =>
        /\ answer.scanned = answer.at_seen
        /\ answer.messages = answer.at_seen

\* C5: the step in which a job of any kind ends by cancellation adds exactly
\* one to cancelled_searches.
C5_CancelCounted ==
    [][answer'.outcome = "cancelled" =>
          search_stats'.cancelled_searches = search_stats.cancelled_searches + 1]_vars

\* the lock the registry is to behave as: kind k is held after the calls of
\* log iff the last call on k was an acquire
RECURSIVE held(_, _)
held(log, k) ==
    IF log = <<>> THEN FALSE
    ELSE IF log[Len(log)].kind = k
         THEN log[Len(log)].op = "acquire"
         ELSE held(SubSeq(log, 1, Len(log) - 1), k)

\* C6: an acquire succeeds exactly when its kind is not held (never acquired,
\* or released any number of times since the last acquire) and then sets the
\* flag; a failed acquire changes nothing; the flag is set exactly while the
\* kind is held.
C6_Registry ==
    /\ \A i \in 1..Len(reg_log) :
          reg_log[i].op = "acquire" =>
              /\ reg_log[i].ok = ~held(SubSeq(reg_log, 1, i - 1), reg_log[i].kind)
              /\ reg_log[i].after = "True"
              /\ (~reg_log[i].ok => reg_log[i].after = reg_log[i].before)
    /\ \A k \in Kinds : (is_running[k] = "True") = held(reg_log, k)

\* C6: two acquires of one kind, the second refused; two releases; the next
\* acquire succeeds
C6_Witness ==
    /\ Len(reg_log) = 5
    /\ \A i \in 1..5 : reg_log[i].kind = "search"
    /\ reg_log[1].op = "acquire" /\ reg_log[1].ok
    /\ reg_log[2].op = "acquire" /\ ~reg_log[2].ok
    /\ reg_log[3].op = "release" /\ reg_log[4].op = "release"
    /\ reg_log[5].op = "acquire" /\ reg_log[5].ok

\* the cooldown window of the gate of kind k, in ticks
WindowOf(k) ==
    IF k = "search" THEN cooldown_minutes * 60 * TicksPerSecond
    ELSE CooldownSeconds * TicksPerSecond

\* C7: an expensive search, regex or export in a guild with an earlier
\* admitted one is rejected with a strictly positive remaining time when it
\* comes less than the window after it, and admitted otherwise.
C7_GateWindow ==
    (gate.kind \in {"search", "regex", "export"} /\ gate.last # NoTime) =>
        IF gate.at - gate.last < WindowOf(gate.kind)
        THEN ~gate.ok /\ gate.remaining > 0
        ELSE gate.ok

\* C8: the last two expensive jobs of the guild, of whatever kinds, started
\* scanning at least one cooldown window apart.
C8_StartsSpaced ==
    Len(expensive_starts) = 2 =>
        expensive_starts[2] - expensive_starts[1]
            >= cooldown_minutes * 60 * TicksPerSecond

\* C9: after the outcomes of N jobs with message counts m1..mN were recorded
\* one after the other on the zero aggregate, total_messages_searched is
\* their sum, total_searches is N and largest_search.messages their maximum.
C9_Aggregate ==
    /\ search_stats.total_messages_searched = SeqSum(recorded)
    /\ search_stats.total_searches = Len(recorded)
    /\ search_stats.largest_search.messages = SeqMax(recorded)

\* C9: three outcomes recorded, the largest neither first nor last
C9_Witness ==
    /\ Len(recorded) = 3
    /\ recorded[1] < recorded[2]
    /\ 0 < recorded[3] /\ recorded[3] < recorded[2]
    /\ search_stats.total_searches = 3

\* C10: whenever no job is in flight, the stats document on disk is the
\* in-memory aggregate.
C10_Persisted ==
    Idle => load_search_stats(stats_file) = search_stats

\* the messages a scan over the channels reads, by the sizes of the
\* histories: min(h, limit) of every channel whose history can be read
RECURSIVE ExpectedScanned(_, _)
ExpectedScanned(channels, limit) ==
    IF channels = <<>> THEN 0
    ELSE (IF GuildChannels[Head(channels)].read_history
          THEN Min(Len(GuildChannels[Head(channels)].history), limit)
          ELSE 0)
         + ExpectedScanned(Tail(channels), limit)

\* the messages among those that the target user wrote and that contain the
\* keyword
RECURSIVE ExpectedMatches(_, _)
ExpectedMatches(channels, limit) ==
    IF channels = <<>> THEN 0
    ELSE LET c == GuildChannels[Head(channels)]
         IN  (IF c.read_history
              THEN Cardinality({i \in 1..Min(Len(c.history), limit) :
                                   c.history[i].author = "target" /\ c.history[i].hit})
              ELSE 0)
             + ExpectedMatches(Tail(channels), limit)

\* C11: a search job that reaches its summary without having seen the
\* cancellation flag has counted every channel of its set, min(h, limit)
\* messages of each, and as matches the scanned messages of the target user
\* that contain the keyword.
C11_SearchCounts ==
    \A t \in Tasks :
        (job[t].kind = "search" /\ job[t].pc = "report" /\ job[t].at_seen = NoCount) =>
            LET channels == process_search_channels(job[t].include, <<>>)
            IN  /\ job[t].chan = Len(channels)
                /\ job[t].total = ExpectedScanned(channels, history_limit(job[t]))
                /\ job[t].found = ExpectedMatches(channels, history_limit(job[t]))

\* C11: a search over the three channels with limit 1, which caps "general"
C11_Witness ==
    \E t \in Tasks :
        /\ job[t].kind = "search" /\ job[t].pc = "report"
        /\ job[t].at_seen = NoCount /\ job[t].q = 1
        /\ job[t].chan = 3 /\ job[t].total = 2 /\ job[t].found = 1

\* C12: an invocation whose --q value is no valid limit starts no job, for
\* every kind: no handler is past its input checks on such arguments.
C12_BadLimitStartsNoJob ==
    \A t \in Tasks : job[t].defect = "bad_q" => ~InFlight(t)

\* the suffix of a typed limit: its factor, 0 when the string has none
SuffixFactor(s) ==
    IF s = <<>> THEN 0
    ELSE IF s[Len(s)] \in {"k", "K"} THEN 1000
    ELSE IF s[Len(s)] \in {"m", "M"} THEN 1000000
    ELSE 0

\* C13: parse_query_limit returns n for a decimal integer string n, n*1000
\* for n followed by k or K, n*1000000 for n followed by m or M, and None
\* for every other string.
C13_ParseQueryLimit ==
    call # <<>> =>
        returned =
            IF all_digits(call) THEN Value(decimal(call))
            ELSE IF SuffixFactor(call) # 0 /\ all_digits(SubSeq(call, 1, Len(call) - 1))
                 THEN Value(decimal(SubSeq(call, 1, Len(call) - 1)) * SuffixFactor(call))
                 ELSE None

\* C14: every step of a regex invocation whose pattern does not compile
\* leaves the cooldown record alone, does not make the regex kind running,
\* and leaves the invocation with no channel iterated, no message scanned
\* and no slot.
C14_InvalidPatternRejected ==
    [][\A t \in Tasks :
          ((job[t].defect = "bad_regex" \/ job'[t].defect = "bad_regex")
              /\ job'[t] # job[t]) =>
             /\ search_cooldowns' = search_cooldowns
             /\ (is_running'["regex"] = "True" => is_running["regex"] = "True")
             /\ job'[t].chan = 0 /\ job'[t].total = 0 /\ ~job'[t].slot
             /\ (~InFlight(t)' => answer'.reply \in {"bad_regex", "user_not_found"}
                                  /\ answer'.scanned = 0)]_vars

\* C14: a regex invocation was rejected for its pattern
C14_Witness == answer.kind = "regex" /\ answer.reply = "bad_regex"

\* the replies to a user input error
InputErrors == {"bad_q", "bad_user", "user_not_found", "bad_regex", "bad_lang"}

\* C15: an invocation that is rejected for a user input error did not hold
\* its kind's slot while it was handled, and does not leave the kind running.
C15_InputErrorTakesNoSlot ==
    [][(answer'.outcome = "rejected" /\ answer'.reply \in InputErrors) =>
          /\ \A t \in Tasks : (InFlight(t) /\ ~InFlight(t)') => ~job[t].slot
          /\ (is_running'[answer'.kind] = "True" =>
                 is_running[answer'.kind] = "True")]_vars

\* the channels a list of plain names (no '#') names that exist and that the
\* bot can read
NamedReadable(include) ==
    {c \in 1..Len(GuildChannels) :
        /\ GuildChannels[c].readable
        /\ \E i \in 1..Len(include) : include[i].name = GuildChannels[c].name}

Range(s) == {s[i] : i \in 1..Len(s)}

PlainNames(list) == \A i \in 1..Len(list) : ~list[i].hash

\* C16: with an include list and an exclude list both given (plain names),
\* every handler's channel set is exactly the existing readable channels the
\* include list names, whatever the exclude list holds.
C16_IncludeWins ==
    (call # <<>> /\ call.include # <<>> /\ call.exclude # <<>>
        /\ PlainNames(call.include)) =>
        /\ Range(returned.search) = NamedReadable(call.include)
        /\ Range(returned.inline) = NamedReadable(call.include)

\* the strings that differ from s only in the case of characters of `letters`
CaseVariants(s, letters) ==
    {v \in [1..Len(s) -> Letters] :
        \A i \in 1..Len(s) :
            \/ v[i] = s[i]
            \/ s[i] \in letters /\ v[i] \in {upper_char(s[i]), lower_char(s[i])}}

\* C17 as stated: a message matches exactly when the lowercased keyword is a
\* substring of the lowercased content, and changing the case of any character
\* of the keyword or of the content never changes the result.
C17_CaseNeverMatters ==
    call # <<>> =>
        /\ returned = is_substring(lower(call.keyword), lower(call.content))
        /\ \A k \in CaseVariants(call.keyword, Letters),
              c \in CaseVariants(call.content, Letters) :
              literal_match(k, c) = returned

AsciiLetters == {"a", "A", "i", "I"}

\* C17 amended: a message matches exactly when the lowercased keyword is a
\* substring of the lowercased content, and changing the case of any ASCII
\* letter of the keyword or of the content never changes the result.
C17_AsciiCaseNeverMatters ==
    call # <<>> =>
        /\ returned = is_substring(lower(call.keyword), lower(call.content))
        /\ \A k \in CaseVariants(call.keyword, AsciiLetters),
              c \in CaseVariants(call.content, AsciiLetters) :
              literal_match(k, c) = returned

\* a keyword in mixed case found in a content of the other case
C17_Witness ==
    /\ call # <<>>
    /\ call.keyword = <<"A", "i">>
    /\ call.content = <<"dotless_i", "a", "I">>
    /\ returned = TRUE

\* the positions where the term occurs in the lowercased text
Occurrences(text, word) ==
    {i \in 0..(Len(text) - Len(word)) : SubSeq(text, i + 1, i + Len(word)) = word}

\* the occurrence at i is a token of its own: the text ends or a space stands
\* on each side
Standalone(text, word, i) ==
    /\ i = 0 \/ text[i] = " "
    /\ i + Len(word) = Len(text) \/ text[i + Len(word) + 1] = " "

\* C18: at "low" a term that occurs only inside a larger word is not reported,
\* at "medium" a term that occurs as a standalone token is reported, and the
\* predicate returns matched terms of the lexicon.
C18_LexiconStrictness ==
    call # <<>> =>
        LET text == lower(call.text)
        IN  /\ returned \subseteq bad_words
            /\ \A word \in bad_words :
                /\ (/\ call.strictness = "low"
                    /\ Occurrences(text, word) # {}
                    /\ \A i \in Occurrences(text, word) : ~Standalone(text, word, i))
                        => word \notin returned
                /\ (/\ call.strictness = "medium"
                    /\ \E i \in Occurrences(text, word) : Standalone(text, word, i))
                        => word \in returned

\* C19: in the step in which a handler that had acquired its kind's slot
\* returns, by whichever exit path, the shared cancellation flag is false.
C19_FlagResetAtReturn ==
    [][\A t \in Tasks :
          (InFlight(t) /\ job[t].slot /\ ~InFlight(t)') => search_cancelled' = FALSE]_vars

\* C20: the step in which an invocation is rejected because a job of its kind
\* is already running changes no running flag, nor the cancellation flag, the
\* cooldown record, the stats aggregate or the stats file.
C20_RejectionMutatesNothing ==
    [][answer'.reply = "already_running" =>
          /\ is_running' = is_running
          /\ search_cancelled' = search_cancelled
          /\ search_cooldowns' = search_cooldowns
          /\ search_stats' = search_stats
          /\ stats_file' = stats_file]_vars

\* an invocation was rejected as already running while an accepted cancel of
\* the running job was still pending
C20_Witness ==
    /\ answer.reply = "already_running"
    /\ search_cancelled
    /\ \E t \in Tasks : InFlight(t) /\ job[t].kind = answer.kind /\ job[t].asked

\* C21: a bare cancel of kind K sets the cancellation flag, and is answered
\* as accepted, exactly when K's running flag is true; in either case it
\* changes no running flag, cooldown record, stats or file, and when K is not
\* running it changes the cancellation flag and the jobs neither.
C21_CancelRequest ==
    [][answer'.outcome = "cancel" =>
          /\ answer'.reply = "cancel_accepted" <=> is_running[answer'.kind] = "True"
          /\ answer'.reply \in {"cancel_accepted", "not_running"}
          /\ is_running' = is_running
          /\ search_cooldowns' = search_cooldowns
          /\ search_stats' = search_stats
          /\ stats_file' = stats_file
          /\ \A t \in Tasks : InFlight(t)' = InFlight(t) /\ job'[t].pc = job[t].pc
          /\ IF answer'.reply = "cancel_accepted"
             THEN search_cancelled' = TRUE
             ELSE search_cancelled' = search_cancelled /\ job' = job]_vars

\* a cancel of a kind that is not running was refused while a job of another
\* kind was in flight
C21_Witness ==
    /\ answer.outcome = "cancel"
    /\ answer.reply = "not_running"
    /\ \E t \in Tasks : InFlight(t) /\ job[t].slot /\ ~search_cancelled

\* the zero-valued aggregate, field by field
ZeroAggregate ==
    [total_searches |-> 0, total_messages_searched |-> 0, total_matches_found |-> 0,
     cancelled_searches |-> 0, deep_searches |-> 0, search_time_total |-> 0,
     searches_by_guild |-> [x \in {} |-> 0], searches_by_user |-> [x \in {} |-> 0],
     last_search |-> <<>>,
     largest_search |-> [messages |-> 0, time |-> 0, keyword |-> "", guild |-> ""]]

\* C22: load_search_stats returns the zero-valued default aggregate when the
\* stats file is missing or cannot be parsed, and the stored document
\* unchanged otherwise.
C22_LoadStats ==
    call # <<>> =>
        returned = IF call.file = <<>> \/ call.file = << Unparsable >>
                   THEN ZeroAggregate
                   ELSE call.file[1]

\* the file was there and could not be parsed
C22_Witness ==
    /\ call # <<>>
    /\ call.file = << Unparsable >>
    /\ returned.total_searches = 0
    /\ returned.largest_search.messages = 0

\* C23: whatever calls came before, and whatever the memo holds, the last
\* keyword_match call returned true exactly when some configured keyword is
\* a substring of its lowercased text.
C23_KeywordMatchPure ==
    call # <<>> =>
        returned = (\E k \in KEYWORD_SET : is_substring(k, lower(call)))

\* C24: every job that has started scanning a channel runs with a positive
\* per-channel limit.
C24_LimitPositive ==
    \A t \in Tasks :
        (InFlight(t) /\ job[t].chan > 0) =>
            /\ query_limit(job[t]) > 0
            /\ history_limit(job[t]) > 0

\* C25: a job that observed the cancellation flag set, at a channel boundary
\* or inside the message loop of any channel, and whose last message went
\* through, ends as cancelled with the cancellation summary, never with the
\* completion summary.
C25_ObservedCancelEndsCancelled ==
    (answer.at_seen # NoCount /\ answer.outcome # "error") =>
        /\ answer.outcome = "cancelled"
        /\ answer.reply = "cancelled"

\* C26: a bad-word scan never holds more matches than the result cap, and
\* once it holds that many it reads no further message and stores no further
\* match.
C26_ResultCap ==
    [][\A t \in Tasks :
          (job[t].kind = "badscan" /\ InFlight(t)') =>
              /\ job'[t].found <= MatchCap
              /\ job[t].found >= MatchCap =>
                    /\ job'[t].found = job[t].found
                    /\ job'[t].total = job[t].total]_vars

\* the throttle interval of a kind, in ticks
Interval(kind) ==
    (IF kind = "regex" THEN RegexProgressSeconds ELSE ProgressSeconds) * TicksPerSecond

\* C27: within one job every progress edit comes at least the kind's throttle
\* interval after the one before it, and the first at least that long after
\* the job's start.
C27_ProgressThrottle ==
    call # <<>> =>
        \A i \in 1..Len(call.edits) :
            call.edits[i] - (IF i = 1 THEN call.start_time ELSE call.edits[i - 1])
                >= Interval(call.kind)

\* a badscan job has made two progress edits, five seconds apart
C27_Witness ==
    /\ call # <<>>
    /\ call.kind = "badscan"
    /\ Len(call.edits) = 2
    /\ call.edits[2] - call.edits[1] = ProgressSeconds * TicksPerSecond
    /\ returned = TRUE

\* the channel list a job walks
ChannelsOf(j) ==
    CASE j.kind = "search" -> process_search_channels(j.include, <<>>)
      [] j.kind = "badscan" -> badscan_channels(j.include)
      [] OTHER -> inline_search_channels(j.include, <<>>)

\* task t is about to read the history of a channel that raises Forbidden
AtForbidden(t) ==
    /\ job[t].pc \in {"msgs", "fetch"}
    /\ job[t].chan \in 1..Len(ChannelsOf(job[t]))
    /\ ~GuildChannels[ChannelsOf(job[t])[job[t].chan]].read_history

\* C28: the step in which a job's history read raises a permission error
\* keeps the job running with its counts as they were and takes it to the
\* next channel (to the summary after the last one, to the cancellation when
\* the flag is set); a job that ends completed has released its slot.
C28_ForbiddenSkipsChannel ==
    [][/\ \A t \in Tasks :
            (AtForbidden(t) /\ (job'[t].pc # job[t].pc \/ job'[t].chan # job[t].chan)) =>
                /\ InFlight(t)'
                /\ job'[t].total = job[t].total
                /\ job'[t].found = job[t].found
                /\ IF job[t].chan = Len(ChannelsOf(job[t]))
                   THEN job'[t].pc = "report"
                   ELSE IF search_cancelled
                   THEN job'[t].pc \in {"cancel_edit", "report"}
                   ELSE job'[t].pc = job[t].pc /\ job'[t].chan = job[t].chan + 1
       /\ answer'.outcome = "completed" => is_running'[answer'.kind] # "True"]_vars

\* a search went over all channels, skipped #locked, read #general and
\* #random, and ended completed
C28_Witness ==
    /\ answer.outcome = "completed"
    /\ answer.kind = "search"
    /\ answer.scanned = Len(GuildChannels[1].history) + Len(GuildChannels[3].history)
    /\ is_running["search"] = "False"

\* every channel of the list is one the bot may read, and the list follows
\* the order of the guild's channels
ReadableInGuildOrder(channels) ==
    /\ \A i \in 1..Len(channels) : GuildChannels[channels[i]].readable
    /\ \A i, k \in 1..Len(channels) : i < k => channels[i] < channels[k]

\* C29: whatever the include and exclude specifiers, every channel of the
\* resolved set of every kind is one the bot has permission to read, and the
\* set keeps the guild's channel order.
C29_ResolvedReadableOrdered ==
    call # <<>> =>
        /\ ReadableInGuildOrder(returned.search)
        /\ ReadableInGuildOrder(returned.inline)
        /\ ReadableInGuildOrder(returned.badscan)

\* C30: a handler that resolved an empty channel set and was not turned away
\* for its input or by the cooldown returns as completed, with a summary that
\* states zero messages and zero matches, and with the slot released.
C30_EmptySetCompletes ==
    [][\A t \in Tasks :
          (/\ InFlight(t) /\ ~InFlight(t)'
           /\ ChannelsOf(job[t]) = <<>>
           /\ answer'.reply \notin InputErrors \cup {"cooldown"}
           /\ answer'.outcome # "error") =>
              /\ answer'.outcome = "completed"
              /\ answer'.messages = 0
              /\ answer'.matches = 0
              /\ is_running'[answer'.kind] # "True"]_vars

\* C31: every result message a job sends or edits is at most 2000
\* characters long.
C31_PayloadLimit ==
    call # <<>> => \A i \in 1..Len(returned) : returned[i] <= PayloadLimit

\* C32: get_cached_messages fetches and stores a page when the entry for
\* (channel, limit) is absent, returns the stored page without fetching when
\* it is present and force_refresh is false, and with force_refresh always
\* fetches and overwrites, so the page returned is never the stored one.
C32_CachedPage ==
    call # <<>> =>
        /\ ~call.stored => returned.fetched /\ returned.page = call.fresh
        /\ call.stored /\ ~call.force_refresh =>
               ~returned.fetched /\ returned.page = call.before
        /\ call.force_refresh => returned.fetched /\ returned.page = call.fresh

\* C33: when search or scan observes the cancellation flag at a channel
\* boundary, the channel count its "cancelled after N/total channels" message
\* states (the job's chan as it goes to the edit) is the number of channels
\* whose history it had started before (the job's chan before the step); a
\* job cancelled before its first channel states zero.
C33_CancelledChannelCount ==
    [][\A t \in Tasks :
          /\ job[t].pc # "cancel_edit"
          /\ job'[t].pc = "cancel_edit"
          /\ job'[t].kind \in {"search", "scan"}
          => job'[t].chan = job[t].chan]_vars

\* the specifiers of a list without their leading '#'
Unhashed(list) == [i \in DOMAIN list |-> strip_hash(list[i])]

\* C34: writing a channel specifier with or without its leading '#' makes
\* no difference to the channel set of any command that accepts --in or
\* --exclude.
C34_HashIsOptional ==
    call # <<>> =>
        /\ returned.search = process_search_channels(Unhashed(call.include),
                                                     Unhashed(call.exclude))
        /\ returned.inline = inline_search_channels(Unhashed(call.include),
                                                    Unhashed(call.exclude))
        /\ returned.badscan = badscan_channels(Unhashed(call.include))

\* the flags parse_command_args recognises, and those that take a value
RecognisedFlags == {"--q", "--in", "--all", "--debug"}
ValueFlags == {"--q", "--in"}

\* the tokens from position i on that are neither a recognised flag nor the
\* value a flag consumed, in order
RECURSIVE Positional(_, _)
Positional(args, i) ==
    IF i > Len(args) THEN <<>>
    ELSE IF token_lower(args[i]) \in ValueFlags /\ i + 1 <= Len(args)
         THEN Positional(args, i + 2)
         ELSE IF token_lower(args[i]) \in RecognisedFlags
              THEN Positional(args, i + 1)
              ELSE <<args[i]>> \o Positional(args, i + 1)

\* C36: parse_command_args returns as positional arguments exactly the
\* tokens that are neither a recognised flag nor a value a flag consumed, in
\* their order, whatever flags are typed and wherever they stand.
C36_PositionalArgs ==
    call # <<>> => returned.processed_args = Positional(call.args, 1)

\* C37: every keyword_match decides against the keyword list as setkeywords
\* last left it: it returns whether the text, lowercased, contains a keyword
\* of CONFIG["search_keywords"], lowercased.
C37_MatchesCurrentKeywords ==
    [][(\E text \in Texts : keyword_match(text)) =>
          returned' = (\E k \in CONFIG.search_keywords :
                          is_substring(lower(k), lower(call')))]_vars

\* C35: the cancellation flag is true only while a job is in flight, and a
\* cancel is accepted only for a kind one of whose handlers has not returned.
C35_CancelNeedsJob ==
    /\ search_cancelled => \E t \in Tasks : InFlight(t)
    /\ answer.reply = "cancel_accepted" =>
          \E t \in Tasks : InFlight(t) /\ job[t].kind = answer.kind

\* C38: the guild's cooldown timestamp is written only by an expensive
\* invocation whose job then starts scanning: once every handler has
\* returned, a timestamp is there only if an expensive job issued a
\* history fetch.
C38_TimestampNeedsScan ==
    (\A t \in Tasks : ~InFlight(t)) /\ GuildId \in DOMAIN search_cooldowns
        => expensive_starts # <<>>

\* the fields search_stats_command reads from last_search and from
\* largest_search
LastSearchFields == {"user", "keyword", "messages", "time", "matches", "guild"}
LargestSearchFields == {"messages", "time", "keyword", "guild"}

\* C39: after any sequence of recorded jobs, last_search is empty or holds
\* every field searchstats reads from it, and largest_search, which
\* searchstats reads when its message count is positive, holds every field
\* read from it.
C39_StatsFields ==
    /\ search_stats.last_search # <<>> =>
          LastSearchFields \subseteq DOMAIN search_stats.last_search[1]
    /\ search_stats.largest_search.messages > 0 =>
          LargestSearchFields \subseteq DOMAIN search_stats.largest_search

\* task t runs the same job before and after the step
SameJob(t) == InFlight(t) /\ job'[t].pc # "idle"

\* C40: while a job runs, the matches it has stored are never negative and
\* never more than the messages it has scanned, the channels it has counted
\* are never more than the channels it walks, and no counter decreases.
C40_CountersOrdered ==
    [][\A t \in Tasks :
          /\ job'[t].pc # "idle" =>
                /\ 0 <= job'[t].found
                /\ job'[t].found <= job'[t].total
                /\ job'[t].chan <= Len(ChannelsOf(job'[t]))
          /\ SameJob(t) =>
                /\ job'[t].found >= job[t].found
                /\ job'[t].total >= job[t].total
                /\ job'[t].chan >= job[t].chan]_vars

\* A job has gone on to its second channel with a match stored and with more
\* messages scanned than matches.
C40_Witness ==
    \E t \in Tasks :
        /\ InFlight(t)
        /\ job[t].chan >= 2
        /\ job[t].found >= 1
        /\ job[t].total > job[t].found
====
